---- MODULE Spec2Model ----
(***************************************************************************)
(* Model of the append-only log core of dp-teals: the RFC 6962 history     *)
(* tree (pkg/merkle) with its inclusion and consistency proofs.            *)
(*                                                                         *)
(* Byte strings are sequences of numbers 0..255.  The hash primitive is    *)
(* idealised as an injective framing of its input (see DefaultHashFunc),   *)
(* so that two digests are equal exactly when their inputs are equal,      *)
(* while concatenation of byte strings keeps its real ambiguity.           *)
(* Node pointers are positions in a heap (a sequence of nodes); Nil is 0.  *)
(* Positions in Leaves and the indices handed to the API are 0-based as in *)
(* the Go code; TLA+ sequences are 1-based, so leaf i is Leaves[i + 1].    *)
(***************************************************************************)
EXTENDS Integers, Sequences, FiniteSets, TLC

\* ------------------------------------------------------------------ bounds
MaxSplitArg == 70
MaxInputLen == 3
MaxMMRLeaves == 7
MaxShapeLeaves == 5
MaxStartLeaves == 2
MaxLeaves == 4

\* Leaf byte strings offered to NewTree / Append (zero-length included).
LeafData == { <<>>, <<7>> }

\* ------------------------------------------------------------- hash package
\* sha256.Sum256 idealised: an injective function of the input bytes.
DefaultHashFunc(data) == <<254>> \o data \o <<255>>

LeafPrefix == 0
NodePrefix == 1

\* Variant: hashes the data without the leaf prefix.
HashLeafData_NoPrefix(data) == DefaultHashFunc(data)

HashLeafData(data) == DefaultHashFunc(<<LeafPrefix>> \o data)

\* Variant: hashes the shorter of the two digests first.
HashInternalNodes_ShorterFirst(left, right) ==
    IF Len(left) <= Len(right)
    THEN DefaultHashFunc(<<NodePrefix>> \o (left \o right))
    ELSE DefaultHashFunc(<<NodePrefix>> \o (right \o left))

HashInternalNodes(left, right) == DefaultHashFunc(<<NodePrefix>> \o (left \o right))

\* hex.EncodeToString: two hex digits (0..15) per byte.
RECURSIVE HexEncode(_)
HexEncode(bytes) ==
    IF bytes = <<>> THEN <<>>
    ELSE <<Head(bytes) \div 16, Head(bytes) % 16>> \o HexEncode(Tail(bytes))

\* ---------------------------------------------------------- split arithmetic
\* math/bits.Len: number of bits needed to represent x (0 for x = 0).
RECURSIVE BitsLen(_)
BitsLen(x) == IF x = 0 THEN 0 ELSE 1 + BitsLen(x \div 2)

\* Variant: splits in the middle instead of at a power of two.
largestPowerOfTwoLessThan_Half(n) == n \div 2

\* Variant: takes the bit length of n instead of n - 1.
largestPowerOfTwoLessThan_OfN(n) == 2 ^ (BitsLen(n) - 1)

largestPowerOfTwoLessThan(n) == 2 ^ (BitsLen(n - 1) - 1)

\* ------------------------------------------------------------------- nodes
Nil == 0

NewNode(hash, left, right) ==
    [Hash |-> hash, Left |-> left, Right |-> right, Parent |-> Nil]

\* Variant: sets Parent only on the nodes that have none yet.
RECURSIVE buildRecursive_KeepsParent(_, _)
buildRecursive_KeepsParent(heap, ids) ==
    LET n == Len(ids) IN
    IF n = 1 THEN [heap |-> heap, root |-> ids[1]]
    ELSE
        LET k      == largestPowerOfTwoLessThan(n)
            left   == buildRecursive_KeepsParent(heap, SubSeq(ids, 1, k))
            right  == buildRecursive_KeepsParent(left.heap, SubSeq(ids, k + 1, n))
            parent == Len(right.heap) + 1
            parentHash == HashInternalNodes(right.heap[left.root].Hash,
                                            right.heap[right.root].Hash)
            linked == [right.heap EXCEPT
                          ![left.root].Parent  = IF @ = Nil THEN parent ELSE @,
                          ![right.root].Parent = IF @ = Nil THEN parent ELSE @]
        IN [heap |-> Append(linked, NewNode(parentHash, left.root, right.root)),
            root |-> parent]

\* buildRecursive over the node pointers ids; heap is the memory before the
\* call.  Returns the memory after the call and the pointer to the root.
RECURSIVE buildRecursive(_, _)
buildRecursive(heap, ids) ==
    LET n == Len(ids) IN
    IF n = 1 THEN [heap |-> heap, root |-> ids[1]]
    ELSE
        LET k      == largestPowerOfTwoLessThan(n)
            left   == buildRecursive(heap, SubSeq(ids, 1, k))
            right  == buildRecursive(left.heap, SubSeq(ids, k + 1, n))
            parent == Len(right.heap) + 1
            parentHash == HashInternalNodes(right.heap[left.root].Hash,
                                            right.heap[right.root].Hash)
            linked == [right.heap EXCEPT ![left.root].Parent  = parent,
                                         ![right.root].Parent = parent]
        IN [heap |-> Append(linked, NewNode(parentHash, left.root, right.root)),
            root |-> parent]

\* indexMap[hashHex] = append(indexMap[hashHex], i)
IndexAdd(indexMap, hashHex, i) ==
    IF hashHex \in DOMAIN indexMap
    THEN [indexMap EXCEPT ![hashHex] = Append(@, i)]
    ELSE (hashHex :> <<i>>) @@ indexMap

EmptyIndex == [key \in {} |-> <<>>]

\* The loop of build over data[from..], i being the 0-based position.
RECURSIVE buildIndex(_, _, _)
buildIndex(indexMap, data, i) ==
    IF i >= Len(data) THEN indexMap
    ELSE buildIndex(IndexAdd(indexMap, HexEncode(HashLeafData(data[i + 1])), i),
                    data, i + 1)

build(data) ==
    LET leafNodes == [i \in 1..Len(data) |->
                         NewNode(HashLeafData(data[i]), Nil, Nil)]
        leaves    == [i \in 1..Len(data) |-> i]
        built     == buildRecursive(leafNodes, leaves)
    IN [heap     |-> built.heap,
        root     |-> built.root,
        Leaves   |-> leaves,
        indexMap |-> buildIndex(EmptyIndex, data, 0)]

\* A read of indexMap[hashHex]: the nil slice for a key that is absent, and
\* for every key of a nil map.
IndexLookup(indexMap, hashHex) ==
    IF hashHex \in DOMAIN indexMap THEN indexMap[hashHex] ELSE <<>>

\* indexMap[hashHex] = indices
IndexPut(indexMap, hashHex, indices) ==
    IF hashHex \in DOMAIN indexMap
    THEN [indexMap EXCEPT ![hashHex] = indices]
    ELSE (hashHex :> indices) @@ indexMap

\* The loop of the method Tree.build: position i is appended to what the
\* tree's own map tIndexMap holds for the digest, and the result is stored
\* in the new map.
RECURSIVE treeBuildIndex(_, _, _, _)
treeBuildIndex(tIndexMap, indexMap, data, i) ==
    IF i >= Len(data) THEN indexMap
    ELSE LET hashHex == HexEncode(HashLeafData(data[i + 1]))
         IN treeBuildIndex(tIndexMap,
                           IndexPut(indexMap, hashHex,
                                    Append(IndexLookup(tIndexMap, hashHex), i)),
                           data, i + 1)

\* The method Tree.build, called by NewTree on a Tree whose indexMap is
\* tIndexMap (the nil map, EmptyIndex, for the Tree NewTree has just made).
TreeBuild(tIndexMap, data) ==
    LET leafNodes == [i \in 1..Len(data) |->
                         NewNode(HashLeafData(data[i]), Nil, Nil)]
        leaves    == [i \in 1..Len(data) |-> i]
        built     == buildRecursive(leafNodes, leaves)
    IN [heap     |-> built.heap,
        root     |-> built.root,
        Leaves   |-> leaves,
        indexMap |-> treeBuildIndex(tIndexMap, EmptyIndex, data, 0)]

\* The nil *Tree: what the caller holds when no tree has been returned.
NilTree == [heap |-> <<>>, root |-> Nil, Leaves |-> <<>>, indexMap |-> EmptyIndex]

\* Variant: also refuses a list of one element.
NewTree_RejectsSingle(data) ==
    IF Len(data) <= 1
    THEN [err |-> "no data provided", tree |-> NilTree]
    ELSE [err |-> "", tree |-> build(data)]

\* NewTree(data, nil); err "" stands for nil.
NewTree(data) ==
    IF Len(data) = 0
    THEN [err |-> "no data provided", tree |-> NilTree]
    ELSE [err |-> "", tree |-> build(data)]

\* Tree.RootHash; <<>> stands for the nil slice.
RootHash(t) == IF t.root # Nil THEN t.heap[t.root].Hash ELSE <<>>

\* Variant: rebuilds the root before the new leaf is added to Leaves.
AppendLeaf_RebuildFirst(t, leafBytes) ==
    LET leafHash == HashLeafData(leafBytes)
        built    == buildRecursive(t.heap, t.Leaves)
        leafPtr  == Len(built.heap) + 1
    IN [heap     |-> Append(built.heap, NewNode(leafHash, Nil, Nil)),
        root     |-> built.root,
        Leaves   |-> Append(t.Leaves, leafPtr),
        indexMap |-> IndexAdd(t.indexMap, HexEncode(leafHash), Len(t.Leaves))]

\* Variant: refuses a zero-length leaf and leaves the tree as it is.
AppendLeaf_RefusesEmpty(t, leafBytes) ==
    IF Len(leafBytes) = 0 THEN t
    ELSE
    LET leafHash == HashLeafData(leafBytes)
        leafPtr  == Len(t.heap) + 1
        heap1    == Append(t.heap, NewNode(leafHash, Nil, Nil))
        leaves1  == Append(t.Leaves, leafPtr)
        index1   == IndexAdd(t.indexMap, HexEncode(leafHash), Len(leaves1) - 1)
        built    == buildRecursive(heap1, leaves1)
    IN [heap     |-> built.heap,
        root     |-> built.root,
        Leaves   |-> leaves1,
        indexMap |-> index1]

\* Variant: stores the new root digest in the old root node as well.
AppendLeaf_OverwritesOldRoot(t, leafBytes) ==
    LET leafHash == HashLeafData(leafBytes)
        leafPtr  == Len(t.heap) + 1
        heap1    == Append(t.heap, NewNode(leafHash, Nil, Nil))
        leaves1  == Append(t.Leaves, leafPtr)
        index1   == IndexAdd(t.indexMap, HexEncode(leafHash), Len(leaves1) - 1)
        built    == buildRecursive(heap1, leaves1)
    IN [heap     |-> [built.heap EXCEPT ![t.root].Hash = built.heap[built.root].Hash],
        root     |-> built.root,
        Leaves   |-> leaves1,
        indexMap |-> index1]

\* Tree.Append as a function of the tree value.
AppendLeaf(t, leafBytes) ==
    LET leafHash == HashLeafData(leafBytes)
        leafPtr  == Len(t.heap) + 1
        heap1    == Append(t.heap, NewNode(leafHash, Nil, Nil))
        leaves1  == Append(t.Leaves, leafPtr)
        index1   == IndexAdd(t.indexMap, HexEncode(leafHash), Len(leaves1) - 1)
        built    == buildRecursive(heap1, leaves1)
    IN [heap     |-> built.heap,
        root     |-> built.root,
        Leaves   |-> leaves1,
        indexMap |-> index1]

\* --------------------------------------------------------- inclusion proofs
\* Variant: records the direction flags the wrong way round.
RECURSIVE inclusionWalk_FlagsSwapped(_, _)
inclusionWalk_FlagsSwapped(heap, current) ==
    IF heap[current].Parent = Nil THEN [Siblings |-> <<>>, Left |-> <<>>]
    ELSE
        LET parent == heap[current].Parent
            rest   == inclusionWalk_FlagsSwapped(heap, parent)
        IN IF heap[parent].Left = current
           THEN [Siblings |-> <<heap[heap[parent].Right].Hash>> \o rest.Siblings,
                 Left     |-> <<TRUE>> \o rest.Left]
           ELSE [Siblings |-> <<heap[heap[parent].Left].Hash>> \o rest.Siblings,
                 Left     |-> <<FALSE>> \o rest.Left]

\* Variant: stops at the child of the root.
RECURSIVE inclusionWalk_StopsBelowRoot(_, _)
inclusionWalk_StopsBelowRoot(heap, current) ==
    IF heap[current].Parent = Nil THEN [Siblings |-> <<>>, Left |-> <<>>]
    ELSE IF heap[heap[current].Parent].Parent = Nil
    THEN [Siblings |-> <<>>, Left |-> <<>>]
    ELSE
        LET parent == heap[current].Parent
            rest   == inclusionWalk_StopsBelowRoot(heap, parent)
        IN IF heap[parent].Left = current
           THEN [Siblings |-> <<heap[heap[parent].Right].Hash>> \o rest.Siblings,
                 Left     |-> <<FALSE>> \o rest.Left]
           ELSE [Siblings |-> <<heap[heap[parent].Left].Hash>> \o rest.Siblings,
                 Left     |-> <<TRUE>> \o rest.Left]

\* Variant: records the digest of the walker instead of its sibling's.
RECURSIVE inclusionWalk_OwnDigest(_, _)
inclusionWalk_OwnDigest(heap, current) ==
    IF heap[current].Parent = Nil THEN [Siblings |-> <<>>, Left |-> <<>>]
    ELSE
        LET parent == heap[current].Parent
            rest   == inclusionWalk_OwnDigest(heap, parent)
        IN IF heap[parent].Left = current
           THEN [Siblings |-> <<heap[current].Hash>> \o rest.Siblings,
                 Left     |-> <<FALSE>> \o rest.Left]
           ELSE [Siblings |-> <<heap[current].Hash>> \o rest.Siblings,
                 Left     |-> <<TRUE>> \o rest.Left]

\* The loop of GenerateInclusionProof: from current up to the root.
RECURSIVE inclusionWalk(_, _)
inclusionWalk(heap, current) ==
    IF heap[current].Parent = Nil THEN [Siblings |-> <<>>, Left |-> <<>>]
    ELSE
        LET parent == heap[current].Parent
            rest   == inclusionWalk(heap, parent)
        IN IF heap[parent].Left = current
           THEN [Siblings |-> <<heap[heap[parent].Right].Hash>> \o rest.Siblings,
                 Left     |-> <<FALSE>> \o rest.Left]
           ELSE [Siblings |-> <<heap[heap[parent].Left].Hash>> \o rest.Siblings,
                 Left     |-> <<TRUE>> \o rest.Left]

\* The nodes whose Hash slices the loop of GenerateInclusionProof appends to
\* siblings: the proof shares the storage of these digests with the tree.
RECURSIVE inclusionWalkNodes(_, _)
inclusionWalkNodes(heap, current) ==
    IF heap[current].Parent = Nil THEN <<>>
    ELSE
        LET parent == heap[current].Parent
            rest   == inclusionWalkNodes(heap, parent)
        IN IF heap[parent].Left = current
           THEN <<heap[parent].Right>> \o rest
           ELSE <<heap[parent].Left>> \o rest

\* The nodes whose storage the proof GenerateInclusionProof(index) shares.
InclusionProofNodes(t, index) ==
    IF index < 0 \/ index >= Len(t.Leaves) THEN <<>>
    ELSE inclusionWalkNodes(t.heap, t.Leaves[index + 1])

\* Tree.GenerateInclusionProof(index); err stands for the returned error.
GenerateInclusionProof(t, index) ==
    IF index < 0 \/ index >= Len(t.Leaves)
    THEN [err |-> TRUE, Siblings |-> <<>>, Left |-> <<>>]
    ELSE LET walk == inclusionWalk(t.heap, t.Leaves[index + 1])
         IN [err |-> FALSE, Siblings |-> walk.Siblings, Left |-> walk.Left]

\* Tree.GenerateInclusionProofByData(data); err stands for the returned
\* error, which is "leaf not found in the tree" when indices is empty.
GenerateInclusionProofByData(t, leafBytes) ==
    LET leafHash == HashLeafData(leafBytes)
        indices  == IndexLookup(t.indexMap, HexEncode(leafHash))
    IN IF Len(indices) = 0
       THEN [err |-> TRUE, Siblings |-> <<>>, Left |-> <<>>]
       ELSE GenerateInclusionProof(t, indices[1])

\* Variant: puts the sibling on the right whatever proof.Left says.
RECURSIVE verifyInclusionLoop_IgnoresLeft(_, _, _, _)
verifyInclusionLoop_IgnoresLeft(hash, siblings, left, i) ==
    IF i > Len(siblings) THEN [panic |-> FALSE, hash |-> hash]
    ELSE IF i > Len(left) THEN [panic |-> TRUE, hash |-> hash]
    ELSE verifyInclusionLoop_IgnoresLeft(
             DefaultHashFunc(<<NodePrefix>> \o (hash \o siblings[i])),
             siblings, left, i + 1)

\* The loop of VerifyInclusionProof from the i-th sibling on.  Reading
\* proof.Left[i] beyond its length is a run-time panic (index out of range).
RECURSIVE verifyInclusionLoop(_, _, _, _)
verifyInclusionLoop(hash, siblings, left, i) ==
    IF i > Len(siblings) THEN [panic |-> FALSE, hash |-> hash]
    ELSE IF i > Len(left) THEN [panic |-> TRUE, hash |-> hash]
    ELSE IF left[i]
         THEN verifyInclusionLoop(DefaultHashFunc(<<NodePrefix>> \o (siblings[i] \o hash)),
                                  siblings, left, i + 1)
         ELSE verifyInclusionLoop(DefaultHashFunc(<<NodePrefix>> \o (hash \o siblings[i])),
                                  siblings, left, i + 1)

\* Variant: hashes the leaf data with the prefix of the internal nodes.
VerifyInclusionProof_LeafAsNode(leafData, siblings, left, rootHash) ==
    LET hash == DefaultHashFunc(<<NodePrefix>> \o leafData)
        loop == verifyInclusionLoop(hash, siblings, left, 1)
    IN IF loop.panic THEN "panic"
       ELSE IF loop.hash = rootHash THEN "true" ELSE "false"

\* VerifyInclusionProof: "true", "false", or "panic" when the call aborts.
VerifyInclusionProof(leafData, siblings, left, rootHash) ==
    LET hash == DefaultHashFunc(<<LeafPrefix>> \o leafData)
        loop == verifyInclusionLoop(hash, siblings, left, 1)
    IN IF loop.panic THEN "panic"
       ELSE IF loop.hash = rootHash THEN "true" ELSE "false"

\* ------------------------------------------------------- consistency proofs
RECURSIVE findHashTopDown(_, _, _, _, _, _)
findHashTopDown(t, node, nodeStart, nodeN, targetStart, targetN) ==
    IF nodeStart = targetStart /\ nodeN = targetN THEN t.heap[node].Hash
    ELSE
        LET k == largestPowerOfTwoLessThan(nodeN) IN
        IF targetStart < nodeStart + k
        THEN findHashTopDown(t, t.heap[node].Left, nodeStart, k, targetStart, targetN)
        ELSE findHashTopDown(t, t.heap[node].Right, nodeStart + k, nodeN - k,
                             targetStart, targetN)

subtreeHash(t, start, n) ==
    IF n = 1 THEN t.heap[t.Leaves[start + 1]].Hash
    ELSE findHashTopDown(t, t.root, 0, Len(t.Leaves), start, n)

\* Variant: keeps the flag b when it descends into the right half.
RECURSIVE subProofRecursively_KeepsFlag(_, _, _, _, _)
subProofRecursively_KeepsFlag(t, m, start, n, b) ==
    IF m = n
    THEN IF b THEN <<>> ELSE <<subtreeHash(t, start, n)>>
    ELSE
        LET k == largestPowerOfTwoLessThan(n) IN
        IF m <= k
        THEN Append(subProofRecursively_KeepsFlag(t, m, start, k, b),
                    subtreeHash(t, start + k, n - k))
        ELSE Append(subProofRecursively_KeepsFlag(t, m - k, start + k, n - k, b),
                    subtreeHash(t, start, k))

RECURSIVE subProofRecursively(_, _, _, _, _)
subProofRecursively(t, m, start, n, b) ==
    IF m = n
    THEN IF b THEN <<>> ELSE <<subtreeHash(t, start, n)>>
    ELSE
        LET k == largestPowerOfTwoLessThan(n) IN
        IF m <= k
        THEN Append(subProofRecursively(t, m, start, k, b),
                    subtreeHash(t, start + k, n - k))
        ELSE Append(subProofRecursively(t, m - k, start + k, n - k, FALSE),
                    subtreeHash(t, start, k))

\* The node whose Hash slice findHashTopDown returns.
RECURSIVE findNodeTopDown(_, _, _, _, _, _)
findNodeTopDown(t, node, nodeStart, nodeN, targetStart, targetN) ==
    IF nodeStart = targetStart /\ nodeN = targetN THEN node
    ELSE
        LET k == largestPowerOfTwoLessThan(nodeN) IN
        IF targetStart < nodeStart + k
        THEN findNodeTopDown(t, t.heap[node].Left, nodeStart, k, targetStart, targetN)
        ELSE findNodeTopDown(t, t.heap[node].Right, nodeStart + k, nodeN - k,
                             targetStart, targetN)

\* The node whose Hash slice subtreeHash returns.
subtreeNode(t, start, n) ==
    IF n = 1 THEN t.Leaves[start + 1]
    ELSE findNodeTopDown(t, t.root, 0, Len(t.Leaves), start, n)

\* The nodes whose Hash slices subProofRecursively collects.
RECURSIVE subProofNodes(_, _, _, _, _)
subProofNodes(t, m, start, n, b) ==
    IF m = n
    THEN IF b THEN <<>> ELSE <<subtreeNode(t, start, n)>>
    ELSE
        LET k == largestPowerOfTwoLessThan(n) IN
        IF m <= k
        THEN Append(subProofNodes(t, m, start, k, b),
                    subtreeNode(t, start + k, n - k))
        ELSE Append(subProofNodes(t, m - k, start + k, n - k, FALSE),
                    subtreeNode(t, start, k))

\* The nodes whose storage the proof GenerateConsistencyProof(m) shares.
ConsistencyProofNodes(t, m) ==
    IF m <= 0 \/ m > Len(t.Leaves) THEN <<>>
    ELSE subProofNodes(t, m, 0, Len(t.Leaves), TRUE)

\* Variant: also refuses the full size m = n.
GenerateConsistencyProof_RejectsFull(t, m) ==
    LET n == Len(t.Leaves) IN
    IF m <= 0 \/ m >= n
    THEN [err |-> TRUE, Hashes |-> <<>>]
    ELSE [err |-> FALSE, Hashes |-> subProofRecursively(t, m, 0, n, TRUE)]

\* Tree.GenerateConsistencyProof(m); err stands for the returned error.
GenerateConsistencyProof(t, m) ==
    LET n == Len(t.Leaves) IN
    IF m <= 0 \/ m > n
    THEN [err |-> TRUE, Hashes |-> <<>>]
    ELSE [err |-> FALSE, Hashes |-> subProofRecursively(t, m, 0, n, TRUE)]

SubProofError == [old |-> <<>>, new |-> <<>>, rest |-> <<>>, err |-> TRUE]

\* Variant: combines the old right part and the left hash in the wrong order.
RECURSIVE verifySubProof_OldSwapped(_, _, _, _, _)
verifySubProof_OldSwapped(m, n, b, proofHashes, oldRoot) ==
    IF m = n
    THEN IF b
         THEN [old |-> oldRoot, new |-> oldRoot, rest |-> proofHashes, err |-> FALSE]
         ELSE IF Len(proofHashes) = 0 THEN SubProofError
              ELSE [old |-> Head(proofHashes), new |-> Head(proofHashes),
                    rest |-> Tail(proofHashes), err |-> FALSE]
    ELSE
        LET k == largestPowerOfTwoLessThan(n) IN
        IF m <= k
        THEN LET sub == verifySubProof_OldSwapped(m, k, b, proofHashes, oldRoot) IN
             IF sub.err THEN SubProofError
             ELSE IF Len(sub.rest) = 0 THEN SubProofError
             ELSE [old  |-> sub.old,
                   new  |-> HashInternalNodes(sub.new, Head(sub.rest)),
                   rest |-> Tail(sub.rest),
                   err  |-> FALSE]
        ELSE LET sub == verifySubProof_OldSwapped(m - k, n - k, FALSE, proofHashes, oldRoot) IN
             IF sub.err THEN SubProofError
             ELSE IF Len(sub.rest) = 0 THEN SubProofError
             ELSE [old  |-> HashInternalNodes(sub.old, Head(sub.rest)),
                   new  |-> HashInternalNodes(Head(sub.rest), sub.new),
                   rest |-> Tail(sub.rest),
                   err  |-> FALSE]

RECURSIVE verifySubProof(_, _, _, _, _)
verifySubProof(m, n, b, proofHashes, oldRoot) ==
    IF m = n
    THEN IF b
         THEN [old |-> oldRoot, new |-> oldRoot, rest |-> proofHashes, err |-> FALSE]
         ELSE IF Len(proofHashes) = 0 THEN SubProofError
              ELSE [old |-> Head(proofHashes), new |-> Head(proofHashes),
                    rest |-> Tail(proofHashes), err |-> FALSE]
    ELSE
        LET k == largestPowerOfTwoLessThan(n) IN
        IF m <= k
        THEN LET sub == verifySubProof(m, k, b, proofHashes, oldRoot) IN
             IF sub.err THEN SubProofError
             ELSE IF Len(sub.rest) = 0 THEN SubProofError
             ELSE [old  |-> sub.old,
                   new  |-> HashInternalNodes(sub.new, Head(sub.rest)),
                   rest |-> Tail(sub.rest),
                   err  |-> FALSE]
        ELSE LET sub == verifySubProof(m - k, n - k, FALSE, proofHashes, oldRoot) IN
             IF sub.err THEN SubProofError
             ELSE IF Len(sub.rest) = 0 THEN SubProofError
             ELSE [old  |-> HashInternalNodes(Head(sub.rest), sub.old),
                   new  |-> HashInternalNodes(Head(sub.rest), sub.new),
                   rest |-> Tail(sub.rest),
                   err  |-> FALSE]

\* Variant: does not look at the hashes that remain unused.
VerifyConsistencyProof_IgnoresRest(m, n, oldRoot, newRoot, hashes) ==
    IF m = n
    THEN IF oldRoot = newRoot /\ Len(hashes) = 0 THEN "true" ELSE "false"
    ELSE IF m <= 0 \/ m > n THEN "false"
    ELSE LET sub == verifySubProof(m, n, TRUE, hashes, oldRoot) IN
         IF sub.err THEN "false"
         ELSE IF sub.old = oldRoot /\ sub.new = newRoot THEN "true" ELSE "false"

\* Variant: for equal sizes it compares the roots and ignores the hashes.
VerifyConsistencyProof_EqualSizesAnyProof(m, n, oldRoot, newRoot, hashes) ==
    IF m = n
    THEN IF oldRoot = newRoot THEN "true" ELSE "false"
    ELSE IF m <= 0 \/ m > n THEN "false"
    ELSE LET sub == verifySubProof(m, n, TRUE, hashes, oldRoot) IN
         IF sub.err THEN "false"
         ELSE IF Len(sub.rest) # 0 THEN "false"
         ELSE IF sub.old = oldRoot /\ sub.new = newRoot THEN "true" ELSE "false"

\* VerifyConsistencyProof: "true" or "false".
VerifyConsistencyProof(m, n, oldRoot, newRoot, hashes) ==
    IF m = n
    THEN IF oldRoot = newRoot /\ Len(hashes) = 0 THEN "true" ELSE "false"
    ELSE IF m <= 0 \/ m > n THEN "false"
    ELSE LET sub == verifySubProof(m, n, TRUE, hashes, oldRoot) IN
         IF sub.err THEN "false"
         ELSE IF Len(sub.rest) # 0 THEN "false"
         ELSE IF sub.old = oldRoot /\ sub.new = newRoot THEN "true" ELSE "false"

\* -------------------------------------------------------------- mmr package
\* Leaf byte strings offered to MMR.Append (zero-length included).
MMRData == { <<>>, <<7>>, <<8>> }

MMRNode(hash, left, right, height) ==
    [Hash |-> hash, Left |-> left, Right |-> right, Height |-> height]

\* NewMMR(nil): no peaks, size 0; heap is the memory holding the nodes.
NewMMR == [heap |-> <<>>, peaks |-> <<>>, size |-> 0]

\* Variant: merges with the last peak at most once.
mergePeaks_Once(heap, peaks, newNode) ==
    IF Len(peaks) > 0 /\ heap[peaks[Len(peaks)]].Height = heap[newNode].Height
    THEN LET lastPeak   == peaks[Len(peaks)]
             mergedHash == HashInternalNodes(heap[lastPeak].Hash, heap[newNode].Hash)
         IN [heap  |-> Append(heap, MMRNode(mergedHash, lastPeak, newNode,
                                            heap[lastPeak].Height + 1)),
             peaks |-> Append(SubSeq(peaks, 1, Len(peaks) - 1), Len(heap) + 1)]
    ELSE [heap |-> heap, peaks |-> Append(peaks, newNode)]

\* The merge loop of MMR.Append and the push that follows it.
RECURSIVE mergePeaks(_, _, _)
mergePeaks(heap, peaks, newNode) ==
    IF Len(peaks) > 0 /\ heap[peaks[Len(peaks)]].Height = heap[newNode].Height
    THEN LET lastPeak   == peaks[Len(peaks)]
             mergedHash == HashInternalNodes(heap[lastPeak].Hash, heap[newNode].Hash)
         IN mergePeaks(Append(heap, MMRNode(mergedHash, lastPeak, newNode,
                                            heap[lastPeak].Height + 1)),
                       SubSeq(peaks, 1, Len(peaks) - 1),
                       Len(heap) + 1)
    ELSE [heap |-> heap, peaks |-> Append(peaks, newNode)]

\* Variant: counts the leaf before it looks at its length.
MMRAppend_CountsRejected(m, leafBytes) ==
    IF Len(leafBytes) = 0
    THEN [err |-> "empty leaf not allowed", mmr |-> [m EXCEPT !.size = @ + 1]]
    ELSE LET leafHash == DefaultHashFunc(leafBytes)
             heap1    == Append(m.heap, MMRNode(leafHash, Nil, Nil, 0))
             merged   == mergePeaks(heap1, m.peaks, Len(heap1))
         IN [err |-> "",
             mmr |-> [heap |-> merged.heap, peaks |-> merged.peaks,
                      size |-> m.size + 1]]

\* MMR.Append as a function of the MMR value; err "" stands for nil.
MMRAppend(m, leafBytes) ==
    IF Len(leafBytes) = 0
    THEN [err |-> "empty leaf not allowed", mmr |-> m]
    ELSE LET leafHash == DefaultHashFunc(leafBytes)
             heap1    == Append(m.heap, MMRNode(leafHash, Nil, Nil, 0))
             merged   == mergePeaks(heap1, m.peaks, Len(heap1))
         IN [err |-> "",
             mmr |-> [heap |-> merged.heap, peaks |-> merged.peaks,
                      size |-> m.size + 1]]

\* Variant: puts the running root on the left of the peak.
RECURSIVE bagPeaks_RootFirst(_, _, _)
bagPeaks_RootFirst(m, root, i) ==
    IF i < 1 THEN root
    ELSE bagPeaks_RootFirst(m, HashInternalNodes(root, m.heap[m.peaks[i]].Hash), i - 1)

\* The loop of MMR.RootHash from peak i (1-based) down to the first peak.
RECURSIVE bagPeaks(_, _, _)
bagPeaks(m, root, i) ==
    IF i < 1 THEN root
    ELSE bagPeaks(m, HashInternalNodes(m.heap[m.peaks[i]].Hash, root), i - 1)

\* MMR.RootHash; <<>> stands for the nil slice.
MMRRootHash(m) ==
    IF Len(m.peaks) = 0 THEN <<>>
    ELSE bagPeaks(m, m.heap[m.peaks[Len(m.peaks)]].Hash, Len(m.peaks) - 1)

\* ------------------------------------------------------------------- state
VARIABLES
    tree,      \* the Tree object: heap, root, Leaves, indexMap
    data,      \* the caller's list of the leaf byte strings given so far
    history,   \* the roots the caller recorded, one per size since NewTree
    proof,     \* the proof the caller holds, with the root captured with it
    verdict,   \* the last verification call: its inputs and its result
    mmr,       \* the MMR object: heap, peaks, size
    mmrLeaves, \* the byte strings the MMR accepted, in order
    mmrCall,   \* the last call on the MMR: its input and what it returned
    lock,      \* the tree's sync.RWMutex: readers, writer, writers waiting
    procs      \* the goroutines that call the tree concurrently

vars == <<tree, data, history, proof, verdict, mmr, mmrLeaves, mmrCall, lock, procs>>

treeVars == <<tree, data, history, proof, verdict>>
mmrVars == <<mmr, mmrLeaves, mmrCall>>
concVars == <<lock, procs>>

\* The zero sync.RWMutex: no reader, no writer, no writer waiting.
NewLock == [readers |-> 0, writer |-> FALSE, waiting |-> 0]

\* One goroutine uses the objects: the lock is free whenever a call starts.
SingleGoroutine ==
    /\ lock = NewLock
    /\ procs = <<>>

RECURSIVE SeqsUpTo(_, _)
SeqsUpTo(S, n) ==
    IF n = 0 THEN { <<>> }
    ELSE LET shorter == SeqsUpTo(S, n - 1)
         IN shorter \cup { Append(s, x) : s \in { q \in shorter : Len(q) = n - 1 }, x \in S }

NoProof ==
    [kind |-> "none", arg |-> 0, size |-> 0, root |-> <<>>, err |-> FALSE,
     Siblings |-> <<>>, Left |-> <<>>, Hashes |-> <<>>,
     nodes |-> <<>>, rootNode |-> Nil]

NoTamper == [kind |-> "none", pos |-> 0, val |-> <<>>]

NoVerdict ==
    [op |-> "none", arg |-> 0, size |-> 0, m |-> 0, n |-> 0, leaf |-> <<>>,
     tamper |-> NoTamper, Siblings |-> <<>>, Left |-> <<>>, Hashes |-> <<>>,
     oldRoot |-> <<>>, root |-> <<>>, result |-> "none"]

NoMMRCall == [op |-> "none", data |-> <<>>, err |-> "", root |-> <<>>]

\* The size of the tree when history[1] was recorded.
HistoryBase == Len(data) - Len(history) + 1

\* The root recorded when the tree had m leaves (m >= HistoryBase).
RecordedRoot(m) == history[m - HistoryBase + 1]

\* NewTree(d, nil) for a non-empty d, followed by the caller's RootHash().
Init ==
    \E d \in SeqsUpTo(LeafData, MaxLeaves) :
        /\ d # <<>>
        /\ tree = build(d)
        /\ data = d
        /\ history = <<RootHash(build(d))>>
        /\ proof = NoProof
        /\ verdict = NoVerdict
        /\ mmr = NewMMR
        /\ mmrLeaves = <<>>
        /\ mmrCall = NoMMRCall
        /\ SingleGoroutine

\* Tree.Append(x), followed by the caller's RootHash() kept in history.
TreeAppend(x) ==
    /\ Len(tree.Leaves) < MaxLeaves
    /\ tree' = AppendLeaf(tree, x)
    /\ data' = Append(data, x)
    /\ history' = Append(history, RootHash(AppendLeaf(tree, x)))
    /\ verdict' = NoVerdict
    /\ UNCHANGED proof
    /\ UNCHANGED mmrVars
    /\ UNCHANGED concVars

\* proof, err := tree.GenerateInclusionProof(index), with RootHash() captured.
\* Siblings, Hashes and root are the bytes as returned; nodes and rootNode say
\* which nodes' Hash storage the returned slices point to.
CallGenerateInclusionProof(index) ==
    /\ LET r == GenerateInclusionProof(tree, index) IN
       proof' = [kind |-> "incl", arg |-> index, size |-> Len(tree.Leaves),
                 root |-> RootHash(tree), err |-> r.err,
                 Siblings |-> r.Siblings, Left |-> r.Left, Hashes |-> <<>>,
                 nodes |-> InclusionProofNodes(tree, index),
                 rootNode |-> tree.root]
    /\ verdict' = NoVerdict
    /\ UNCHANGED <<tree, data, history>>
    /\ UNCHANGED mmrVars
    /\ UNCHANGED concVars

\* proof, err := tree.GenerateConsistencyProof(m), with RootHash() captured.
CallGenerateConsistencyProof(m) ==
    /\ LET r == GenerateConsistencyProof(tree, m) IN
       proof' = [kind |-> "cons", arg |-> m, size |-> Len(tree.Leaves),
                 root |-> RootHash(tree), err |-> r.err,
                 Siblings |-> <<>>, Left |-> <<>>, Hashes |-> r.Hashes,
                 nodes |-> ConsistencyProofNodes(tree, m),
                 rootNode |-> tree.root]
    /\ verdict' = NoVerdict
    /\ UNCHANGED <<tree, data, history>>
    /\ UNCHANGED mmrVars
    /\ UNCHANGED concVars

\* proof, err := tree.GenerateInclusionProofByData(x), with RootHash()
\* captured.
CallGenerateInclusionProofByData(x) ==
    /\ LET r == GenerateInclusionProofByData(tree, x) IN
       proof' = [kind |-> "inclByData", arg |-> 0, leaf |-> x,
                 size |-> Len(tree.Leaves), root |-> RootHash(tree),
                 err |-> r.err, Siblings |-> r.Siblings, Left |-> r.Left,
                 Hashes |-> <<>>]
    /\ verdict' = NoVerdict
    /\ UNCHANGED <<tree, data, history>>
    /\ UNCHANGED mmrVars
    /\ UNCHANGED concVars

\* ---------------------------------------------- what a caller may hand over
\* A byte string that is no digest of the tree.
FakeDigest == DefaultHashFunc(<<9>>)

TamperDigests == { HashLeafData(<<7>>), FakeDigest }

RemoveAt(s, j) == SubSeq(s, 1, j - 1) \o SubSeq(s, j + 1, Len(s))
InsertAt(s, j, x) == SubSeq(s, 1, j - 1) \o <<x>> \o SubSeq(s, j, Len(s))
Front(s) == SubSeq(s, 1, Len(s) - 1)
Last(s) == s[Len(s)]

\* Ways of changing an inclusion proof before it is verified.
InclusionTampers(p) ==
    {NoTamper}
    \cup { [kind |-> "sibling", pos |-> j, val |-> v] :
             j \in 1..Len(p.Siblings), v \in TamperDigests }
    \cup { [kind |-> "flip", pos |-> j, val |-> <<>>] : j \in 1..Len(p.Left) }
    \cup { [kind |-> "leftShort", pos |-> j, val |-> <<>>] : j \in 1..Len(p.Left) }
    \cup { [kind |-> "leftLong", pos |-> 0, val |-> <<>>] }

TamperedSiblings(p, t) ==
    IF t.kind = "sibling" THEN [p.Siblings EXCEPT ![t.pos] = t.val] ELSE p.Siblings

TamperedLeft(p, t) ==
    CASE t.kind = "flip"      -> [p.Left EXCEPT ![t.pos] = ~@]
      [] t.kind = "leftShort" -> SubSeq(p.Left, 1, Len(p.Left) - t.pos)
      [] t.kind = "leftLong"  -> Append(p.Left, FALSE)
      [] OTHER                -> p.Left

\* The calls of VerifyInclusionProof made with the proof p.
InclusionCalls(p) ==
    { [leaf |-> leaf, root |-> root, tamper |-> t] :
        leaf \in LeafData, root \in {p.root, RootHash(tree), FakeDigest},
        t \in { x \in InclusionTampers(p) :
                  x.kind = "sibling" => x.val # p.Siblings[x.pos] } }

\* ok := VerifyInclusionProof(leaf, proof, root, nil) on the proof held.
CallVerifyInclusionProof ==
    /\ proof.kind = "incl"
    /\ ~proof.err
    /\ verdict.op = "none"
    /\ \E c \in InclusionCalls(proof) :
         verdict' =
           [op |-> "VerifyInclusionProof", arg |-> proof.arg, size |-> proof.size,
            m |-> 0, n |-> 0, leaf |-> c.leaf, tamper |-> c.tamper,
            Siblings |-> TamperedSiblings(proof, c.tamper),
            Left |-> TamperedLeft(proof, c.tamper),
            Hashes |-> <<>>, oldRoot |-> <<>>, root |-> c.root,
            result |-> VerifyInclusionProof(c.leaf, TamperedSiblings(proof, c.tamper),
                                            TamperedLeft(proof, c.tamper), c.root)]
    /\ UNCHANGED <<tree, data, history, proof>>
    /\ UNCHANGED mmrVars
    /\ UNCHANGED concVars

\* The digest the holder of proof p computes for the node j levels above
\* the leaf the proof was generated for.
PathDigest(p, j) ==
    verifyInclusionLoop(HashLeafData(data[p.arg + 1]), SubSeq(p.Siblings, 1, j),
                        SubSeq(p.Left, 1, j), 1).hash

\* The digests of the two children of that node (j >= 1), left child first.
ChildDigests(p, j) ==
    IF p.Left[j] THEN p.Siblings[j] \o PathDigest(p, j - 1)
                 ELSE PathDigest(p, j - 1) \o p.Siblings[j]

\* Attempts to pass something that is no leaf: the proof cut to start j
\* levels above the leaf, offered for a leaf of the tree, for a byte string
\* that is in no tree, or for the two child digests of the node at that level.
ForgedCalls(p) ==
    { [leaf |-> leaf, drop |-> j] :
        j \in 0..Len(p.Siblings), leaf \in LeafData \cup {<<9>>} }
    \cup { [leaf |-> ChildDigests(p, j), drop |-> j] : j \in 1..Len(p.Siblings) }

\* ok := VerifyInclusionProof(c.leaf, cut proof, root, nil)
CallVerifyForgedInclusion ==
    /\ proof.kind = "incl"
    /\ ~proof.err
    /\ verdict.op = "none"
    /\ \E c \in ForgedCalls(proof) :
         LET siblings == SubSeq(proof.Siblings, c.drop + 1, Len(proof.Siblings))
             left     == SubSeq(proof.Left, c.drop + 1, Len(proof.Left))
         IN verdict' =
              [op |-> "VerifyInclusionProof", arg |-> proof.arg, size |-> proof.size,
               m |-> 0, n |-> 0, leaf |-> c.leaf,
               tamper |-> [kind |-> "forged", pos |-> c.drop, val |-> <<>>],
               Siblings |-> siblings, Left |-> left,
               Hashes |-> <<>>, oldRoot |-> <<>>, root |-> proof.root,
               result |-> VerifyInclusionProof(c.leaf, siblings, left, proof.root)]
    /\ UNCHANGED <<tree, data, history, proof>>
    /\ UNCHANGED mmrVars
    /\ UNCHANGED concVars

\* Ways of changing a consistency proof before it is verified.
ConsistencyTampers(p) ==
    {NoTamper}
    \cup { [kind |-> "remove", pos |-> j, val |-> <<>>] : j \in 1..Len(p.Hashes) }
    \cup { [kind |-> "truncate", pos |-> j, val |-> <<>>] : j \in 2..Len(p.Hashes) }
    \cup { [kind |-> "insert", pos |-> j, val |-> v] :
             j \in 1..(Len(p.Hashes) + 1), v \in TamperDigests }
    \cup { [kind |-> "extend", pos |-> 2, val |-> FakeDigest] }
    \cup { [kind |-> "replace", pos |-> j, val |-> v] :
             j \in 1..Len(p.Hashes), v \in TamperDigests }
    \cup { [kind |-> "splice", pos |-> j, val |-> <<>>] : j \in 1..Len(p.Hashes) }

\* The root of the tree NewTree builds over the first m leaves of data.
BulkRoot(m) == RootHash(build(SubSeq(data, 1, m)))

\* "truncate" drops the last pos hashes, "extend" adds pos hashes at the end,
\* "splice" moves the last byte of the old root to the front of a hash.
TamperedHashes(p, t) ==
    CASE t.kind = "remove"   -> RemoveAt(p.Hashes, t.pos)
      [] t.kind = "truncate" -> SubSeq(p.Hashes, 1, Len(p.Hashes) - t.pos)
      [] t.kind = "insert"   -> InsertAt(p.Hashes, t.pos, t.val)
      [] t.kind = "extend"   -> p.Hashes \o <<t.val, t.val>>
      [] t.kind = "replace"  -> [p.Hashes EXCEPT ![t.pos] = t.val]
      [] t.kind = "splice"   -> [p.Hashes EXCEPT ![t.pos] = <<Last(BulkRoot(p.arg))>> \o @]
      [] OTHER               -> p.Hashes

\* Sizes a caller may pass that are no valid pair 1 <= m <= n.
BadSizes ==
    { s \in (-1..2) \X (-1..2) : s[1] <= 0 \/ s[1] > s[2] }

\* The old roots a caller may pass with the proof p.
OldRoots(p) ==
    { BulkRoot(p.arg), p.root, FakeDigest, Front(BulkRoot(p.arg)) }
    \cup (IF p.arg >= HistoryBase THEN { RecordedRoot(p.arg) } ELSE {})

\* The calls of VerifyConsistencyProof made with the proof p: one deviation
\* from the honest call at a time, and the spliced old root with its proof.
ConsistencyCalls(p) ==
    { [m |-> p.arg, n |-> p.size, oldRoot |-> BulkRoot(p.arg), root |-> p.root,
       tamper |-> t] :
        t \in { x \in ConsistencyTampers(p) :
                  x.kind = "replace" => x.val # p.Hashes[x.pos] } }
    \cup { [m |-> p.arg, n |-> p.size, oldRoot |-> o, root |-> r, tamper |-> NoTamper] :
             o \in OldRoots(p), r \in {p.root, FakeDigest} }
    \cup { [m |-> p.arg, n |-> p.size, oldRoot |-> Front(BulkRoot(p.arg)),
            root |-> p.root, tamper |-> t] :
             t \in { x \in ConsistencyTampers(p) : x.kind = "splice" } }
    \cup { [m |-> s[1], n |-> s[2], oldRoot |-> o, root |-> p.root, tamper |-> NoTamper] :
             s \in BadSizes, o \in {BulkRoot(p.arg), p.root, FakeDigest} }

\* ok := VerifyConsistencyProof(m, n, oldRoot, newRoot, proof, nil) on the
\* proof held.
CallVerifyConsistencyProof ==
    /\ proof.kind = "cons"
    /\ ~proof.err
    /\ verdict.op = "none"
    /\ \E c \in ConsistencyCalls(proof) :
         verdict' =
           [op |-> "VerifyConsistencyProof", arg |-> proof.arg, size |-> proof.size,
            m |-> c.m, n |-> c.n, leaf |-> <<>>, tamper |-> c.tamper,
            Siblings |-> <<>>, Left |-> <<>>,
            Hashes |-> TamperedHashes(proof, c.tamper),
            oldRoot |-> c.oldRoot, root |-> c.root,
            result |-> VerifyConsistencyProof(c.m, c.n, c.oldRoot, c.root,
                                              TamperedHashes(proof, c.tamper))]
    /\ UNCHANGED <<tree, data, history, proof>>
    /\ UNCHANGED mmrVars
    /\ UNCHANGED concVars

\* The tree and its proof generation.
Next ==
    \/ \E x \in LeafData : TreeAppend(x)
    \/ \E index \in -1..Len(tree.Leaves) : CallGenerateInclusionProof(index)
    \/ \E m \in 0..(Len(tree.Leaves) + 1) : CallGenerateConsistencyProof(m)

Spec == Init /\ [][Next]_vars

\* The tree with the generation and verification of inclusion proofs.
NextInclusion ==
    \/ \E x \in LeafData : TreeAppend(x)
    \/ \E index \in -1..Len(tree.Leaves) : CallGenerateInclusionProof(index)
    \/ CallVerifyInclusionProof

SpecInclusion == Init /\ [][NextInclusion]_vars

\* The tree with the generation and verification of consistency proofs.
NextConsistency ==
    \/ \E x \in LeafData : TreeAppend(x)
    \/ \E m \in 0..(Len(tree.Leaves) + 1) : CallGenerateConsistencyProof(m)
    \/ CallVerifyConsistencyProof

SpecConsistency == Init /\ [][NextConsistency]_vars

\* NewTree(d, nil) for a non-empty d in either merkle package of the
\* repository: the one whose build is a function, and the one whose build is
\* a method of the Tree that NewTree has just made.
InitByData ==
    \E d \in SeqsUpTo(LeafData, MaxLeaves) :
        /\ d # <<>>
        /\ tree \in { build(d), TreeBuild(EmptyIndex, d) }
        /\ data = d
        /\ history = <<RootHash(build(d))>>
        /\ proof = NoProof
        /\ verdict = NoVerdict
        /\ mmr = NewMMR
        /\ mmrLeaves = <<>>
        /\ mmrCall = NoMMRCall
        /\ SingleGoroutine

\* The tree with the generation of inclusion proofs by leaf data.
NextByData ==
    \/ \E x \in LeafData : TreeAppend(x)
    \/ \E x \in LeafData : CallGenerateInclusionProofByData(x)

SpecByData == InitByData /\ [][NextByData]_vars

\* Before the first NewTree: the caller holds no tree.
InitNewTree ==
    /\ tree = NilTree
    /\ data = <<>>
    /\ history = <<>>
    /\ proof = NoProof
    /\ verdict = NoVerdict
    /\ mmr = NewMMR
    /\ mmrLeaves = <<>>
    /\ mmrCall = NoMMRCall
    /\ SingleGoroutine

\* tree, err = NewTree(d, nil), followed by the caller's RootHash() when a
\* tree has been returned.
CallNewTree(d) ==
    /\ LET r == NewTree(d) IN
       /\ tree' = r.tree
       /\ data' = IF r.err = "" THEN d ELSE <<>>
       /\ history' = IF r.err = "" THEN <<RootHash(r.tree)>> ELSE <<>>
       /\ verdict' = [NoVerdict EXCEPT !.op = "NewTree", !.n = Len(d),
                                       !.result = IF r.err = "" THEN "ok" ELSE r.err]
    /\ proof' = NoProof
    /\ UNCHANGED mmrVars
    /\ UNCHANGED concVars

\* root := tree.RootHash() on the tree the caller holds.
CallRootHash ==
    /\ tree # NilTree
    /\ verdict' = [NoVerdict EXCEPT !.op = "RootHash", !.size = Len(tree.Leaves),
                                    !.root = RootHash(tree)]
    /\ UNCHANGED <<tree, data, history, proof>>
    /\ UNCHANGED mmrVars
    /\ UNCHANGED concVars

\* Construction of trees, Append and RootHash on the tree in hand.
NextNewTree ==
    \/ \E d \in SeqsUpTo(LeafData, MaxLeaves) : CallNewTree(d)
    \/ \E x \in LeafData : tree # NilTree /\ TreeAppend(x)
    \/ CallRootHash

SpecNewTree == InitNewTree /\ [][NextNewTree]_vars

\* Byte strings handed to the hash functions: the prefix bytes 0 and 1 and
\* another byte, in every order, the empty string included.
HashInputs == SeqsUpTo({0, 1, 7}, MaxInputLen)

\* No tree and no MMR: the functions below need neither.
InitPure ==
    /\ tree = NilTree
    /\ data = <<>>
    /\ history = <<>>
    /\ proof = NoProof
    /\ verdict = NoVerdict
    /\ mmr = NewMMR
    /\ mmrLeaves = <<>>
    /\ mmrCall = NoMMRCall
    /\ SingleGoroutine

\* k := largestPowerOfTwoLessThan(n) for an n the callers may pass (n >= 2).
CallLargestPowerOfTwoLessThan(n) ==
    /\ verdict' = [op |-> "largestPowerOfTwoLessThan", n |-> n,
                   k |-> largestPowerOfTwoLessThan(n)]
    /\ UNCHANGED <<tree, data, history, proof>>
    /\ UNCHANGED mmrVars
    /\ UNCHANGED concVars

\* leaf := hashLeafData(x), node := hashInternalNodes(x, x), plain := H(x).
CallHashFunctions(x) ==
    /\ verdict' = [op |-> "hash", x |-> x,
                   leaf  |-> HashLeafData(x),
                   node  |-> HashInternalNodes(x, x),
                   plain |-> DefaultHashFunc(x)]
    /\ UNCHANGED <<tree, data, history, proof>>
    /\ UNCHANGED mmrVars
    /\ UNCHANGED concVars

\* The pure functions of the package, applied to inputs of the caller.
NextPure ==
    \/ \E n \in 2..MaxSplitArg : CallLargestPowerOfTwoLessThan(n)
    \/ \E x \in HashInputs : CallHashFunctions(x)

SpecPure == InitPure /\ [][NextPure]_vars

\* NewMMR(nil): the caller holds an empty MMR and no tree.
InitMMR ==
    /\ tree = NilTree
    /\ data = <<>>
    /\ history = <<>>
    /\ proof = NoProof
    /\ verdict = NoVerdict
    /\ mmr = NewMMR
    /\ mmrLeaves = <<>>
    /\ mmrCall = NoMMRCall
    /\ SingleGoroutine

\* err := m.Append(x); the caller keeps x when the call succeeded.
CallMMRAppend(x) ==
    /\ Len(x) = 0 \/ mmr.size < MaxMMRLeaves
    /\ LET r == MMRAppend(mmr, x) IN
       /\ mmr' = r.mmr
       /\ mmrLeaves' = IF r.err = "" THEN Append(mmrLeaves, x) ELSE mmrLeaves
       /\ mmrCall' = [op |-> "Append", data |-> x, err |-> r.err, root |-> <<>>]
    /\ UNCHANGED treeVars
    /\ UNCHANGED concVars

\* root := m.RootHash()
CallMMRRootHash ==
    /\ mmrCall' = [op |-> "RootHash", data |-> <<>>, err |-> "",
                   root |-> MMRRootHash(mmr)]
    /\ UNCHANGED <<mmr, mmrLeaves>>
    /\ UNCHANGED treeVars
    /\ UNCHANGED concVars

\* The MMR with Append and RootHash.
NextMMR ==
    \/ \E x \in MMRData : CallMMRAppend(x)
    \/ CallMMRRootHash

SpecMMR == InitMMR /\ [][NextMMR]_vars

\* NewTree(d, nil) for a non-empty d of up to MaxShapeLeaves elements.
InitProofShape ==
    \E d \in SeqsUpTo(LeafData, MaxShapeLeaves) :
        /\ d # <<>>
        /\ tree = build(d)
        /\ data = d
        /\ history = <<RootHash(build(d))>>
        /\ proof = NoProof
        /\ verdict = NoVerdict
        /\ mmr = NewMMR
        /\ mmrLeaves = <<>>
        /\ mmrCall = NoMMRCall
        /\ SingleGoroutine

\* Trees of up to MaxShapeLeaves leaves and their inclusion proofs.
NextProofShape ==
    \/ \E x \in LeafData : TreeAppend(x)
    \/ \E index \in -1..Len(tree.Leaves) : CallGenerateInclusionProof(index)

SpecProofShape == InitProofShape /\ [][NextProofShape]_vars

\* The tree with inclusion proofs verified as generated, changed, or cut and
\* offered for something that is no leaf.
NextInclusionSound ==
    \/ \E x \in LeafData : TreeAppend(x)
    \/ \E index \in -1..Len(tree.Leaves) : CallGenerateInclusionProof(index)
    \/ CallVerifyInclusionProof
    \/ CallVerifyForgedInclusion

SpecInclusionSound == Init /\ [][NextInclusionSound]_vars

\* The bytes a holder of proof p reads now through the slices of the proof
\* and of the captured root: the storage is that of the tree's nodes.
HeldDigests(p) == [j \in 1..Len(p.nodes) |-> tree.heap[p.nodes[j]].Hash]
HeldRoot(p) == tree.heap[p.rootNode].Hash

\* The caller verifies the proof it holds, as it is now, against the root it
\* captured with it, for the leaf and the sizes the proof was generated for.
CallVerifyHeldProof ==
    /\ proof.kind \in {"incl", "cons"}
    /\ ~proof.err
    /\ verdict.op = "none"
    /\ verdict' =
         IF proof.kind = "incl"
         THEN [op |-> "VerifyInclusionProof", arg |-> proof.arg, size |-> proof.size,
               m |-> 0, n |-> 0, leaf |-> data[proof.arg + 1], tamper |-> NoTamper,
               Siblings |-> HeldDigests(proof), Left |-> proof.Left,
               Hashes |-> <<>>, oldRoot |-> <<>>, root |-> HeldRoot(proof),
               result |-> VerifyInclusionProof(data[proof.arg + 1], HeldDigests(proof),
                                               proof.Left, HeldRoot(proof))]
         ELSE [op |-> "VerifyConsistencyProof", arg |-> proof.arg, size |-> proof.size,
               m |-> proof.arg, n |-> proof.size, leaf |-> <<>>, tamper |-> NoTamper,
               Siblings |-> <<>>, Left |-> <<>>,
               Hashes |-> HeldDigests(proof),
               oldRoot |-> BulkRoot(proof.arg), root |-> HeldRoot(proof),
               result |-> VerifyConsistencyProof(proof.arg, proof.size,
                                                 BulkRoot(proof.arg), HeldRoot(proof),
                                                 HeldDigests(proof))]
    /\ UNCHANGED <<tree, data, history, proof>>
    /\ UNCHANGED mmrVars
    /\ UNCHANGED concVars

\* The tree, its proofs, and the verification of a proof kept while the
\* tree grows.
NextHeld ==
    \/ \E x \in LeafData : TreeAppend(x)
    \/ \E index \in -1..Len(tree.Leaves) : CallGenerateInclusionProof(index)
    \/ \E m \in 0..(Len(tree.Leaves) + 1) : CallGenerateConsistencyProof(m)
    \/ CallVerifyHeldProof

SpecHeld == Init /\ [][NextHeld]_vars

\* b ^ 0xFF on one byte.
FlipBits(b) == 255 - b

\* No digest of the tree has been overwritten: each still begins with the
\* byte every output of the hash begins with.
NothingOverwritten ==
    \A node \in 1..Len(tree.heap) : tree.heap[node].Hash[1] = DefaultHashFunc(<<>>)[1]

\* proof.Siblings[j][0] ^= 0xFF, proof.Hashes[j][0] ^= 0xFF or
\* rootHash[0] ^= 0xFF by the caller that holds them: the slice written to is
\* the Hash of a node of the tree.  The caller does so once.
CallerOverwritesDigest(node) ==
    /\ proof.kind \in {"incl", "cons"}
    /\ ~proof.err
    /\ NothingOverwritten
    /\ tree' = [tree EXCEPT !.heap[node].Hash[1] = FlipBits(@)]
    /\ verdict' = NoVerdict
    /\ UNCHANGED <<data, history, proof>>
    /\ UNCHANGED mmrVars
    /\ UNCHANGED concVars

\* The tree, its proofs, and a caller that writes into what it was handed.
NextAlias ==
    \/ \E x \in LeafData : TreeAppend(x)
    \/ \E index \in -1..Len(tree.Leaves) : CallGenerateInclusionProof(index)
    \/ \E m \in 0..(Len(tree.Leaves) + 1) : CallGenerateConsistencyProof(m)
    \/ \E node \in {proof.nodes[j] : j \in 1..Len(proof.nodes)} \cup {proof.rootNode} :
          CallerOverwritesDigest(node)

SpecAlias == Init /\ [][NextAlias]_vars

\* ------------------------------------------------------------ concurrency
\* The goroutines that share one Tree: "w" appends, "r1" calls any of the
\* read operations, "r2" calls RootHash.
Writers == {"w"}
Readers == {"r1", "r2"}
Goroutines == Writers \cup Readers

NoResult ==
    [err |-> "", root |-> <<>>, Siblings |-> <<>>, Left |-> <<>>, Hashes |-> <<>>]

\* A goroutine between two calls; op and result are those of its last call.
IdleGoroutine ==
    [pc |-> "idle", op |-> "none", arg |-> 0, x |-> <<>>, index |-> 0, node |-> Nil,
     n |-> 0, held |-> 0, result |-> NoResult]

\* Variant: a reader does not wait for the writer.
CanRLock_Always(l) == TRUE

\* sync.RWMutex.RLock returns at once exactly when no writer holds the lock
\* and no writer has announced itself; otherwise the caller blocks.
CanRLock(l) == ~l.writer /\ l.waiting = 0

\* sync.RWMutex.Lock, after it has announced the writer, returns exactly
\* when no reader and no writer holds the lock.
CanLock(l) == ~l.writer /\ l.readers = 0

\* NewTree(d, nil) for a d of 1..MaxStartLeaves elements, handed to the
\* goroutines.
InitConcurrent ==
    \E d \in SeqsUpTo(LeafData, MaxStartLeaves) :
        /\ d # <<>>
        /\ tree = build(d)
        /\ data = d
        /\ history = <<RootHash(build(d))>>
        /\ proof = NoProof
        /\ verdict = NoVerdict
        /\ mmr = NewMMR
        /\ mmrLeaves = <<>>
        /\ mmrCall = NoMMRCall
        /\ lock = NewLock
        /\ procs = [g \in Goroutines |-> IdleGoroutine]

\* What every step of a goroutine on the tree leaves alone.
OnlyTreeAndLock ==
    /\ UNCHANGED <<proof, verdict>>
    /\ UNCHANGED mmrVars

\* g calls t.Append(x): t.lock.Lock() announces the writer.
AppendBegin(g, x) ==
    /\ procs[g].pc = "idle"
    /\ Len(data) < MaxLeaves
    /\ procs' = [procs EXCEPT ![g] = [IdleGoroutine EXCEPT !.pc = "lock",
                                         !.op = "Append", !.x = x]]
    /\ lock' = [lock EXCEPT !.waiting = @ + 1]
    /\ UNCHANGED <<tree, data, history>>
    /\ OnlyTreeAndLock

\* t.lock.Lock() returns.
AppendLock(g) ==
    /\ procs[g].pc = "lock"
    /\ CanLock(lock)
    /\ lock' = [lock EXCEPT !.writer = TRUE, !.waiting = @ - 1]
    /\ procs' = [procs EXCEPT ![g].pc = "leaves"]
    /\ UNCHANGED <<tree, data, history>>
    /\ OnlyTreeAndLock

\* t.Leaves = append(t.Leaves, &Node{Hash: leafHash})
AppendLeaves(g) ==
    /\ procs[g].pc = "leaves"
    /\ tree' = [tree EXCEPT
                  !.heap = Append(@, NewNode(HashLeafData(procs[g].x), Nil, Nil)),
                  !.Leaves = Append(@, Len(tree.heap) + 1)]
    /\ data' = Append(data, procs[g].x)
    /\ procs' = [procs EXCEPT ![g].pc = "index"]
    /\ UNCHANGED <<history, lock>>
    /\ OnlyTreeAndLock

\* t.indexMap[hashHex] = append(t.indexMap[hashHex], len(t.Leaves)-1)
AppendIndex(g) ==
    /\ procs[g].pc = "index"
    /\ tree' = [tree EXCEPT
                  !.indexMap = IndexAdd(@, HexEncode(HashLeafData(procs[g].x)),
                                        Len(tree.Leaves) - 1)]
    /\ procs' = [procs EXCEPT ![g].pc = "build"]
    /\ UNCHANGED <<data, history, lock>>
    /\ OnlyTreeAndLock

\* buildRecursive(t.Leaves, t.hashFunc) runs: new internal nodes, Parent
\* pointers set; its result is not yet stored in t.root.
AppendBuild(g) ==
    /\ procs[g].pc = "build"
    /\ LET built == buildRecursive(tree.heap, tree.Leaves) IN
       /\ tree' = [tree EXCEPT !.heap = built.heap]
       /\ procs' = [procs EXCEPT ![g].pc = "root", ![g].node = built.root]
    /\ UNCHANGED <<data, history, lock>>
    /\ OnlyTreeAndLock

\* t.root = the result of buildRecursive
AppendRoot(g) ==
    /\ procs[g].pc = "root"
    /\ tree' = [tree EXCEPT !.root = procs[g].node]
    /\ procs' = [procs EXCEPT ![g].pc = "unlock"]
    /\ UNCHANGED <<data, history, lock>>
    /\ OnlyTreeAndLock

\* return nil, with the deferred t.lock.Unlock()
AppendUnlock(g) ==
    /\ procs[g].pc = "unlock"
    /\ lock' = [lock EXCEPT !.writer = FALSE]
    /\ history' = Append(history, RootHash(tree))
    /\ procs' = [procs EXCEPT ![g].pc = "idle"]
    /\ UNCHANGED <<tree, data>>
    /\ OnlyTreeAndLock

\* The read calls and the arguments the readers pass.
ReadCalls ==
    { [op |-> "RootHash", arg |-> 0, x |-> <<>>] }
    \cup { [op |-> "GenerateInclusionProof", arg |-> i, x |-> <<>>] :
               i \in 0..(MaxLeaves - 1) }
    \cup { [op |-> "GenerateConsistencyProof", arg |-> m, x |-> <<>>] :
               m \in 1..MaxLeaves }
    \cup { [op |-> "GenerateInclusionProofByData", arg |-> 0, x |-> x] :
               x \in LeafData }

\* The calls goroutine g makes.
ReadCallsOf(g) ==
    IF g = "r1" THEN ReadCalls ELSE {c \in ReadCalls : c.op = "RootHash"}

\* g calls one of the read operations.
ReadBegin(g, c) ==
    /\ procs[g].pc = "idle"
    /\ c \in ReadCallsOf(g)
    /\ procs' = [procs EXCEPT ![g] = [IdleGoroutine EXCEPT !.pc = "rlock",
                                         !.op = c.op, !.arg = c.arg, !.x = c.x]]
    /\ UNCHANGED <<tree, data, history, lock>>
    /\ OnlyTreeAndLock

\* t.lock.RLock() returns: the first of the call, or the one
\* GenerateInclusionProof takes when GenerateInclusionProofByData has called
\* it with the read lock held.
ReadRLock(g) ==
    /\ procs[g].pc \in {"rlock", "rlockInner"}
    /\ CanRLock(lock)
    /\ lock' = [lock EXCEPT !.readers = @ + 1]
    /\ procs' = [procs EXCEPT
                   ![g].held = @ + 1,
                   ![g].pc = IF procs[g].pc = "rlockInner" THEN "check"
                             ELSE IF procs[g].op = "RootHash" THEN "read"
                             ELSE IF procs[g].op = "GenerateInclusionProofByData"
                                  THEN "lookup"
                             ELSE "check",
                   ![g].index = IF procs[g].pc = "rlock" THEN procs[g].arg ELSE @]
    /\ UNCHANGED <<tree, data, history>>
    /\ OnlyTreeAndLock

\* RootHash: return t.root.Hash
ReadRoot(g) ==
    /\ procs[g].pc = "read"
    /\ procs' = [procs EXCEPT ![g].result.root = RootHash(tree),
                              ![g].pc = "runlock"]
    /\ UNCHANGED <<tree, data, history, lock>>
    /\ OnlyTreeAndLock

\* GenerateInclusionProofByData: indices := t.indexMap[...]; an error, or
\* the call of GenerateInclusionProof(indices[0]).
ReadLookup(g) ==
    /\ procs[g].pc = "lookup"
    /\ LET indices == IndexLookup(tree.indexMap,
                                  HexEncode(HashLeafData(procs[g].x)))
       IN procs' = IF Len(indices) = 0
                   THEN [procs EXCEPT ![g].result.err = "leaf not found in the tree",
                                      ![g].pc = "runlock"]
                   ELSE [procs EXCEPT ![g].index = indices[1],
                                      ![g].pc = "rlockInner"]
    /\ UNCHANGED <<tree, data, history, lock>>
    /\ OnlyTreeAndLock

\* The range check of GenerateInclusionProof and of GenerateConsistencyProof;
\* leaf := t.Leaves[index], n := len(t.Leaves).
ReadCheck(g) ==
    /\ procs[g].pc = "check"
    /\ procs' =
         IF procs[g].op = "GenerateConsistencyProof"
         THEN IF procs[g].index <= 0 \/ procs[g].index > Len(tree.Leaves)
              THEN [procs EXCEPT ![g].result.err = "invalid m", ![g].pc = "runlock"]
              ELSE [procs EXCEPT ![g].n = Len(tree.Leaves), ![g].pc = "walk"]
         ELSE IF procs[g].index < 0 \/ procs[g].index >= Len(tree.Leaves)
              THEN [procs EXCEPT ![g].result.err = "invalid index", ![g].pc = "runlock"]
              ELSE [procs EXCEPT ![g].node = tree.Leaves[procs[g].index + 1],
                                 ![g].pc = "walk"]
    /\ UNCHANGED <<tree, data, history, lock>>
    /\ OnlyTreeAndLock

\* The walk from the leaf to the root, or subProofRecursively(m, 0, n, true).
ReadWalk(g) ==
    /\ procs[g].pc = "walk"
    /\ procs' =
         IF procs[g].op = "GenerateConsistencyProof"
         THEN [procs EXCEPT
                 ![g].result.Hashes =
                     subProofRecursively(tree, procs[g].index, 0, procs[g].n, TRUE),
                 ![g].pc = "runlock"]
         ELSE LET walk == inclusionWalk(tree.heap, procs[g].node)
              IN [procs EXCEPT ![g].result.Siblings = walk.Siblings,
                               ![g].result.Left = walk.Left,
                               ![g].pc = "runlock"]
    /\ UNCHANGED <<tree, data, history, lock>>
    /\ OnlyTreeAndLock

\* A deferred t.lock.RUnlock() runs; the call returns when it was the last.
ReadRUnlock(g) ==
    /\ procs[g].pc = "runlock"
    /\ lock' = [lock EXCEPT !.readers = @ - 1]
    /\ procs' = [procs EXCEPT ![g].held = @ - 1,
                              ![g].pc = IF procs[g].held > 1 THEN "runlock" ELSE "idle"]
    /\ UNCHANGED <<tree, data, history>>
    /\ OnlyTreeAndLock

\* A step inside a call of goroutine g.
Proceed(g) ==
    \/ AppendLock(g)
    \/ AppendLeaves(g)
    \/ AppendIndex(g)
    \/ AppendBuild(g)
    \/ AppendRoot(g)
    \/ AppendUnlock(g)
    \/ ReadRLock(g)
    \/ ReadRoot(g)
    \/ ReadLookup(g)
    \/ ReadCheck(g)
    \/ ReadWalk(g)
    \/ ReadRUnlock(g)

\* One tree shared by an appending goroutine and two reading ones.
NextConcurrent ==
    \/ \E g \in Writers, x \in LeafData : AppendBegin(g, x)
    \/ \E g \in Readers, c \in ReadCalls : ReadBegin(g, c)
    \/ \E g \in Goroutines : Proceed(g)

SpecConcurrent == InitConcurrent /\ [][NextConcurrent]_vars

\* The Go scheduler: a goroutine that can take its next step does so; one
\* blocked in Lock or RLock goes on once the lock stays free for it.
\* Whether an idle goroutine makes another call is the caller's choice.
SpecConcurrentFair ==
    /\ InitConcurrent
    /\ [][NextConcurrent]_vars
    /\ \A g \in Goroutines : WF_vars(Proceed(g))

\* ------------------------------------------------------- reference notions
IsPowerOfTwo(k) == \E e \in 0..k : 2 ^ e = k

\* RFC 6962 split point: the largest power of two strictly less than n.
RefSplit(n) == CHOOSE k \in 1..(n - 1) : IsPowerOfTwo(k) /\ k < n /\ n <= 2 * k

\* RFC 6962 Merkle Tree Hash of a non-empty list of leaf byte strings.
RECURSIVE MTH(_)
MTH(d) ==
    IF Len(d) = 1 THEN DefaultHashFunc(<<0>> \o d[1])
    ELSE LET k == RefSplit(Len(d))
         IN DefaultHashFunc(<<1>> \o MTH(SubSeq(d, 1, k))
                                  \o MTH(SubSeq(d, k + 1, Len(d))))

\* The tree has been built by NewTree alone / has seen an Append.
BulkBuilt == Len(history) = 1
Appended == Len(history) > 1

\* The last call verified the proof as generated, with the sizes it was
\* generated for.
HonestInclusionCall ==
    /\ verdict.op = "VerifyInclusionProof"
    /\ verdict.tamper = NoTamper
    /\ verdict.leaf = data[verdict.arg + 1]

HonestConsistencyCall ==
    /\ verdict.op = "VerifyConsistencyProof"
    /\ verdict.tamper = NoTamper
    /\ verdict.m = verdict.arg
    /\ verdict.n = verdict.size

\* ------------------------------------------------------------------ claims

\* C1: inclusion round trip.  The proof GenerateInclusionProof(i) returned
\* on the tree over the first n leaves of data, verified for data[i] against
\* the root of Tree(data[0..n)), makes VerifyInclusionProof return true.
C1_InclusionRoundTrip ==
    (HonestInclusionCall /\ verdict.root = BulkRoot(verdict.size))
        => verdict.result = "true"

C1_Witness ==
    /\ HonestInclusionCall
    /\ BulkBuilt
    /\ verdict.size = 3
    /\ verdict.arg = 1
    /\ verdict.root = BulkRoot(verdict.size)
    /\ verdict.result = "true"

\* C2: consistency round trip.  For 1 <= m <= n the proof that
\* GenerateConsistencyProof(m) returned on the tree over data[0..n) makes
\* VerifyConsistencyProof(m, n, root(data[0..m)), root(data[0..n)), proof)
\* return true.
C2_ConsistencyRoundTrip ==
    (/\ HonestConsistencyCall
     /\ verdict.oldRoot = BulkRoot(verdict.m)
     /\ verdict.root = BulkRoot(verdict.n))
        => verdict.result = "true"

C2_Witness ==
    /\ HonestConsistencyCall
    /\ BulkBuilt
    /\ verdict.m = 3
    /\ verdict.n = 4
    /\ Len(verdict.Hashes) = 3
    /\ verdict.oldRoot = BulkRoot(verdict.m)
    /\ verdict.root = BulkRoot(verdict.n)
    /\ verdict.result = "true"

\* C3: RootHash equals the RFC 6962 Merkle Tree Hash of the leaves: the
\* leaf digest for one leaf, and for n >= 2 the node digest of the hashes of
\* the first k and the remaining n - k leaves, k the largest power of two
\* strictly less than n.  Checked on the tree and on every recorded root.
C3_RootIsMTH ==
    /\ RootHash(tree) = MTH(data)
    /\ \A j \in 1..Len(history) :
         history[j] = MTH(SubSeq(data, 1, HistoryBase + j - 1))

C3_Witness ==
    /\ Len(data) = 3
    /\ BulkBuilt
    /\ history[1] =
         HashInternalNodes(
             HashInternalNodes(HashLeafData(data[1]), HashLeafData(data[2])),
             HashLeafData(data[3]))

\* C4: Append is equivalent to bulk construction.  After NewTree(d) and any
\* Appends, the root, every inclusion proof and every consistency proof of
\* the tree equal those of NewTree over the whole list.
C4_AppendEqualsBulk ==
    Appended =>
        LET bulk == build(data) IN
        /\ RootHash(tree) = RootHash(bulk)
        /\ \A i \in 0..(Len(data) - 1) :
             GenerateInclusionProof(tree, i) = GenerateInclusionProof(bulk, i)
        /\ \A m \in 1..Len(data) :
             GenerateConsistencyProof(tree, m) = GenerateConsistencyProof(bulk, m)

C4_Witness ==
    /\ Len(history) = 3
    /\ Len(data) = 4
    /\ tree.heap # build(data).heap
    /\ RootHash(tree) = RootHash(build(data))

\* C5: continuous consistency on a live tree that started with one leaf.
\* At every size n and for every recorded size m <= n, the proof
\* GenerateConsistencyProof(m) of the live tree verifies against the root
\* recorded at size m and the root recorded at size n.
C5_ContinuousConsistency ==
    (/\ HistoryBase = 1
     /\ HonestConsistencyCall
     /\ verdict.oldRoot = RecordedRoot(verdict.m)
     /\ verdict.root = RecordedRoot(verdict.n))
        => verdict.result = "true"

C5_Witness ==
    /\ HistoryBase = 1
    /\ Len(history) = 4
    /\ HonestConsistencyCall
    /\ verdict.m = 3
    /\ verdict.n = 4
    /\ verdict.oldRoot = RecordedRoot(3)
    /\ verdict.root = RecordedRoot(4)
    /\ verdict.result = "true"

\* The digest VerifyInclusionProof has computed before it reads the j-th
\* sibling of the proof passed in the last call.
DigestBelow(j) ==
    verifyInclusionLoop(HashLeafData(verdict.leaf), SubSeq(verdict.Siblings, 1, j - 1),
                        SubSeq(verdict.Left, 1, j - 1), 1).hash

\* The last call verified data[i] against the root of the tree the proof was
\* generated on, with one sibling changed or one flag flipped.
TamperedInclusionCall ==
    /\ verdict.op = "VerifyInclusionProof"
    /\ verdict.tamper.kind \in {"sibling", "flip"}
    /\ verdict.leaf = data[verdict.arg + 1]
    /\ verdict.root = BulkRoot(verdict.size)

\* C6 as stated: for every leaf list (leaves need not be distinct) and every
\* index, changing one sibling digest to a different value or flipping one
\* left[j] makes VerifyInclusionProof return false.
C6_AnyTamperRejected ==
    TamperedInclusionCall => verdict.result = "false"

\* C6 as amended: changing one sibling digest to a different value, or
\* flipping left[j] at a level whose sibling differs from the digest computed
\* below that level, makes VerifyInclusionProof return false; flipping
\* left[j] where the sibling equals that digest leaves the result true.
C6_TamperRejected ==
    TamperedInclusionCall =>
        IF verdict.tamper.kind = "flip"
              /\ verdict.Siblings[verdict.tamper.pos] = DigestBelow(verdict.tamper.pos)
        THEN verdict.result = "true"
        ELSE verdict.result = "false"

C6_Witness ==
    /\ TamperedInclusionCall
    /\ verdict.tamper.kind = "flip"
    /\ verdict.tamper.pos = 2
    /\ verdict.size = 4
    /\ verdict.Siblings[2] # DigestBelow(2)
    /\ verdict.result = "false"

\* The last call passed the sizes and roots the proof was generated for and
\* a proof with hashes removed or added.
ResizedConsistencyCall ==
    /\ verdict.op = "VerifyConsistencyProof"
    /\ verdict.tamper.kind \in {"remove", "truncate", "insert", "extend"}
    /\ verdict.m = verdict.arg
    /\ verdict.n = verdict.size
    /\ verdict.oldRoot = BulkRoot(verdict.m)
    /\ verdict.root = BulkRoot(verdict.n)

\* C7: the length of a consistency proof is checked exactly.  For every
\* 1 <= m <= n, removing hashes from or adding hashes to the generated proof
\* makes VerifyConsistencyProof return false.
C7_ProofLengthExact ==
    ResizedConsistencyCall =>
        /\ Len(verdict.Hashes) # Len(proof.Hashes)
        /\ verdict.result = "false"

C7_Witness ==
    /\ ResizedConsistencyCall
    /\ verdict.tamper.kind = "insert"
    /\ verdict.tamper.pos = 4
    /\ verdict.m = 3
    /\ verdict.n = 4
    /\ Len(verdict.Hashes) = 4
    /\ verdict.result = "false"

\* C8: consistency verification is sound.  For 1 <= m < n, if
\* VerifyConsistencyProof(m, n, oldRoot, newRoot, proof) returns true and
\* newRoot is the root of the tree over data[0..n), then oldRoot is the root
\* of the tree over data[0..m).
C8_ConsistencySound ==
    (/\ verdict.op = "VerifyConsistencyProof"
     /\ 1 <= verdict.m
     /\ verdict.m < verdict.n
     /\ verdict.n <= Len(data)
     /\ verdict.root = BulkRoot(verdict.n)
     /\ verdict.result = "true")
        => verdict.oldRoot = BulkRoot(verdict.m)

\* C9: VerifyInclusionProof returns false, without aborting, for every proof
\* whose Siblings and Left have different lengths.
C9_LengthMismatchRejected ==
    (/\ verdict.op = "VerifyInclusionProof"
     /\ Len(verdict.Siblings) # Len(verdict.Left))
        => verdict.result = "false"

\* C10: VerifyConsistencyProof returns false for all m, n with m <= 0 or
\* m > n, whatever the roots and the proof.
C10_BadSizesRejected ==
    (/\ verdict.op = "VerifyConsistencyProof"
     /\ (verdict.m <= 0 \/ verdict.m > verdict.n))
        => verdict.result = "false"

\* C11: equal sizes.  For m = n >= 1 VerifyConsistencyProof returns true
\* exactly when oldRoot equals newRoot and the proof holds no hashes, and
\* GenerateConsistencyProof(n) on a tree of n leaves succeeds with the proof
\* that holds no hashes.
C11_EqualSizes ==
    /\ (/\ verdict.op = "VerifyConsistencyProof"
        /\ verdict.m = verdict.n
        /\ verdict.m >= 1)
           => (verdict.result = "true"
                  <=> (verdict.oldRoot = verdict.root /\ verdict.Hashes = <<>>))
    /\ (/\ proof.kind = "cons"
        /\ proof.arg = proof.size)
           => (~proof.err /\ proof.Hashes = <<>>)

\* A proof generated for the full size, handed over with equal roots and
\* one hash added, is rejected.
C11_Witness ==
    /\ verdict.op = "VerifyConsistencyProof"
    /\ verdict.m = verdict.n
    /\ verdict.m >= 1
    /\ verdict.oldRoot = verdict.root
    /\ verdict.Hashes # <<>>
    /\ verdict.result = "false"

\* C12: proof generation fails cleanly out of range.  A call of
\* GenerateInclusionProof(i) returns an error exactly when i < 0 or
\* i >= leafCount, a call of GenerateConsistencyProof(m) returns an error
\* exactly when m <= 0 or m > leafCount, and neither call changes the tree
\* (its leaves, its root, its digest index), whether it fails or not.
C12_OutOfRangeFailsCleanly ==
    [][proof' # proof =>
          /\ tree' = tree
          /\ RootHash(tree') = RootHash(tree)
          /\ proof'.kind = "incl" =>
                (proof'.err <=> (proof'.arg < 0 \/ proof'.arg >= Len(tree.Leaves)))
          /\ proof'.kind = "cons" =>
                (proof'.err <=> (proof'.arg <= 0 \/ proof'.arg > Len(tree.Leaves)))
      ]_vars

\* GenerateConsistencyProof(leafCount + 1) has failed on a tree that has
\* seen an Append.
C12_Witness ==
    /\ Appended
    /\ proof.kind = "cons"
    /\ proof.arg = Len(tree.Leaves) + 1
    /\ proof.err

\* The 0-based positions of the leaves of the tree that equal x.
Occurrences(x) == { i \in 0..(Len(data) - 1) : data[i + 1] = x }

Smallest(S) == CHOOSE i \in S : \A j \in S : i <= j

\* The proof in hand was generated by leaf data on the tree as it is now.
ByDataCall ==
    /\ proof.kind = "inclByData"
    /\ proof.size = Len(tree.Leaves)

\* C13: GenerateInclusionProofByData(x) fails exactly when no leaf of the
\* tree equals x, and otherwise returns the proof GenerateInclusionProof(i)
\* returns for the smallest position i whose leaf equals x, also when x
\* occurs several times.
C13_ByDataFirstOccurrence ==
    ByDataCall =>
        /\ proof.err <=> Occurrences(proof.leaf) = {}
        /\ Occurrences(proof.leaf) # {} =>
              LET r == GenerateInclusionProof(tree, Smallest(Occurrences(proof.leaf)))
              IN proof.Siblings = r.Siblings /\ proof.Left = r.Left

\* C14: NewTree returns the error "no data provided" and no tree exactly for
\* the empty list; for a list of n >= 1 elements it returns a tree of n
\* leaves; every tree reached by NewTree and Append has at least one leaf and
\* a root, and RootHash never returns the absent value on it.
C14_NoEmptyTree ==
    /\ verdict.op = "NewTree" =>
          /\ verdict.result = "no data provided" <=> verdict.n = 0
          /\ verdict.n = 0 => tree = NilTree
          /\ verdict.n >= 1 => (tree # NilTree /\ Len(tree.Leaves) = verdict.n)
    /\ tree # NilTree => (Len(tree.Leaves) >= 1 /\ tree.root # Nil)
    /\ verdict.op = "RootHash" => verdict.root # <<>>

\* NewTree has refused the empty list.
C14_Witness ==
    /\ verdict.op = "NewTree"
    /\ verdict.n = 0
    /\ verdict.result = "no data provided"
    /\ tree = NilTree

\* k is 1, 2, 4, 8, ...
RECURSIVE PowerOfTwo(_)
PowerOfTwo(k) == k = 1 \/ (k > 1 /\ k % 2 = 0 /\ PowerOfTwo(k \div 2))

\* C15: for every n >= 2, largestPowerOfTwoLessThan(n) is the k that is a
\* power of two with k < n <= 2k; in particular 2 -> 1, 3 -> 2, 4 -> 2,
\* 5..8 -> 4, 9 and 16 -> 8, 17 -> 16.
C15_SplitIsLargestPowerOfTwo ==
    verdict.op = "largestPowerOfTwoLessThan" =>
        /\ PowerOfTwo(verdict.k)
        /\ verdict.k < verdict.n
        /\ verdict.n <= 2 * verdict.k
        /\ \A e \in { <<2, 1>>, <<3, 2>>, <<4, 2>>, <<5, 4>>, <<6, 4>>, <<7, 4>>,
                      <<8, 4>>, <<9, 8>>, <<16, 8>>, <<17, 16>> } :
              verdict.n = e[1] => verdict.k = e[2]

\* The function has been applied to 17, with the result 16.
C15_Witness ==
    /\ verdict.op = "largestPowerOfTwoLessThan"
    /\ verdict.n = 17
    /\ verdict.k = 16

\* C20: domain separation.  For every byte string x, the empty one
\* included, the input hashed for the leaf digest of x is the byte 0x00
\* followed by x, the input hashed for the node digest of (x, x) is the byte
\* 0x01 followed by x and x; the leaf digest of x differs from the node digest
\* of (x, x) and from the hash of x without a prefix.
C20_DomainSeparation ==
    verdict.op = "hash" =>
        /\ verdict.leaf = DefaultHashFunc(<<0>> \o verdict.x)
        /\ verdict.node = DefaultHashFunc(<<1>> \o verdict.x \o verdict.x)
        /\ verdict.leaf # verdict.node
        /\ verdict.leaf # verdict.plain

\* The three digests of the empty byte string have been computed.
C20_Witness ==
    /\ verdict.op = "hash"
    /\ verdict.x = <<>>
    /\ verdict.leaf # verdict.node

\* The heights of the peaks, left to right.
PeakHeights == [i \in 1..Len(mmr.peaks) |-> mmr.heap[mmr.peaks[i]].Height]

RECURSIVE SumOfPowers(_)
SumOfPowers(heights) ==
    IF heights = <<>> THEN 0 ELSE 2 ^ Head(heights) + SumOfPowers(Tail(heights))

\* C16: after any sequence of MMR.Append calls, accepted or rejected, the
\* heights of the peaks strictly decrease from left to right, and the sum of
\* 2^height over the peaks equals the leaf count, which equals the number of
\* calls that were accepted.
C16_PeaksInvariant ==
    /\ \A i \in 1..(Len(mmr.peaks) - 1) : PeakHeights[i] > PeakHeights[i + 1]
    /\ SumOfPowers(PeakHeights) = mmr.size
    /\ mmr.size = Len(mmrLeaves)

\* Seven leaves are in, peaks of heights 2, 1, 0, and the last call was
\* rejected.
C16_Witness ==
    /\ mmr.size = 7
    /\ PeakHeights = <<2, 1, 0>>
    /\ mmrCall.op = "Append"
    /\ mmrCall.err # ""

\* The largest power of two that is at most n, for n >= 1.
RECURSIVE LargestPowerAtMost(_)
LargestPowerAtMost(n) == IF n = 1 THEN 1 ELSE 2 * LargestPowerAtMost(n \div 2)

\* The root of the perfect tree over d (Len(d) a power of two): a leaf is
\* the hash of its data without a prefix, a node the hash of 0x01 and the
\* digests of its two halves.
RECURSIVE PerfectRoot(_)
PerfectRoot(d) ==
    IF Len(d) = 1 THEN DefaultHashFunc(d[1])
    ELSE LET half == Len(d) \div 2
         IN DefaultHashFunc(<<1>> \o PerfectRoot(SubSeq(d, 1, half))
                                  \o PerfectRoot(SubSeq(d, half + 1, Len(d))))

\* The bagged root of the leaves d: the leaves are split, in order, into
\* perfect trees of strictly decreasing size, and the roots of these are
\* folded from the right, the older peak on the left.
RECURSIVE BaggedRoot(_)
BaggedRoot(d) ==
    IF d = <<>> THEN <<>>
    ELSE LET p == LargestPowerAtMost(Len(d)) IN
         IF p = Len(d) THEN PerfectRoot(d)
         ELSE DefaultHashFunc(<<1>> \o PerfectRoot(SubSeq(d, 1, p))
                                    \o BaggedRoot(SubSeq(d, p + 1, Len(d))))

\* C17: MMR.RootHash returns the bagged root of the accepted leaves, the
\* absent value for the empty MMR; with five leaves the peaks have the
\* heights 2 and 0 and the root is the node digest of the first peak's and
\* the second peak's digests.
C17_RootIsBaggedRoot ==
    /\ mmrCall.op = "RootHash" => mmrCall.root = BaggedRoot(mmrLeaves)
    /\ (mmrCall.op = "RootHash" /\ Len(mmrLeaves) = 5) =>
          /\ PeakHeights = <<2, 0>>
          /\ mmrCall.root = DefaultHashFunc(<<1>> \o mmr.heap[mmr.peaks[1]].Hash
                                                  \o mmr.heap[mmr.peaks[2]].Hash)

\* RootHash has been called on an MMR of five leaves, not all equal.
C17_Witness ==
    /\ mmrCall.op = "RootHash"
    /\ Len(mmrLeaves) = 5
    /\ mmrLeaves[1] # mmrLeaves[5]
    /\ mmrCall.root # <<>>

\* C18: MMR.Append of a zero-length byte string returns the error "empty
\* leaf not allowed" and leaves the peaks, the leaf count and RootHash as they
\* were; Append of a non-empty byte string returns no error.
C18_EmptyLeafRejected ==
    [][mmrCall'.op = "Append" =>
          /\ mmrCall'.err = "empty leaf not allowed" <=> mmrCall'.data = <<>>
          /\ mmrCall'.data # <<>> => mmrCall'.err = ""
          /\ mmrCall'.data = <<>> =>
                /\ mmr'.peaks = mmr.peaks
                /\ mmr'.size = mmr.size
                /\ MMRRootHash(mmr') = MMRRootHash(mmr)
      ]_vars

\* An Append has been rejected on an MMR that holds three leaves.
C18_Witness ==
    /\ mmrCall.op = "Append"
    /\ mmrCall.data = <<>>
    /\ mmrCall.err = "empty leaf not allowed"
    /\ mmr.size = 3

\* The lists of leaf byte strings that are as long as the list in the tree.
SameLengthLists == { d \in SeqsUpTo(LeafData, Len(data)) : Len(d) = Len(data) }

\* C19: the order of the leaves is significant.  The root of the tree over
\* [a, b] differs from the root of the tree over [b, a] for a # b, and the
\* root of the tree differs from the root of the tree over every other list
\* of leaves of the same length.
C19_OrderSignificant ==
    /\ \A d \in SameLengthLists :
          d # data => RootHash(build(d)) # RootHash(tree)
    /\ (Len(data) = 2 /\ data[1] # data[2]) =>
          RootHash(build(<<data[2], data[1]>>)) # RootHash(tree)

\* The tree holds two different leaves, the second of them appended.
C19_Witness ==
    /\ Len(data) = 2
    /\ data[1] # data[2]
    /\ Appended

\* The depth of leaf i in the RFC 6962 tree of n leaves.
RECURSIVE Depth(_, _)
Depth(i, n) ==
    IF n = 1 THEN 0
    ELSE LET k == RefSplit(n)
         IN IF i < k THEN 1 + Depth(i, k) ELSE 1 + Depth(i - k, n - k)

\* An inclusion proof is in hand.
InclusionProofHeld == proof.kind = "incl" /\ ~proof.err

\* C23: the inclusion proof for index i in a tree of n leaves has as many
\* siblings, and as many left flags, as the depth d(i, n) of leaf i in the
\* RFC 6962 shape: none for 1 leaf; 2, 2, 1 for 3 leaves; 3, 3, 3, 3, 1 for
\* 5 leaves.
C23_ProofLengthIsDepth ==
    InclusionProofHeld =>
        /\ Len(proof.Siblings) = Depth(proof.arg, proof.size)
        /\ Len(proof.Left) = Depth(proof.arg, proof.size)
        /\ proof.size = 1 => Len(proof.Siblings) = 0
        /\ proof.size = 3 => Len(proof.Siblings) = <<2, 2, 1>>[proof.arg + 1]
        /\ proof.size = 5 => Len(proof.Siblings) = <<3, 3, 3, 3, 1>>[proof.arg + 1]

\* The proof for the last of five leaves is in hand.
C23_Witness ==
    /\ InclusionProofHeld
    /\ proof.size = 5
    /\ proof.arg = 4
    /\ Len(proof.Siblings) = 1

\* The RFC 6962 audit path of leaf i in the tree over d, from the leaf
\* upwards, with the side of each sibling: TRUE where the sibling is the left
\* child, i.e. where the walker is the right child.
RECURSIVE AuditPath(_, _)
AuditPath(d, i) ==
    IF Len(d) = 1 THEN [Siblings |-> <<>>, Left |-> <<>>]
    ELSE LET k     == RefSplit(Len(d))
             lower == SubSeq(d, 1, k)
             upper == SubSeq(d, k + 1, Len(d))
         IN IF i < k
            THEN [Siblings |-> Append(AuditPath(lower, i).Siblings, MTH(upper)),
                  Left     |-> Append(AuditPath(lower, i).Left, FALSE)]
            ELSE [Siblings |-> Append(AuditPath(upper, i - k).Siblings, MTH(lower)),
                  Left     |-> Append(AuditPath(upper, i - k).Left, TRUE)]

\* C24: in the inclusion proof for leaf i, siblings[j] is the digest of the
\* other child of the j-th ancestor on the walk from the leaf to the root and
\* left[j] is true exactly when the walker is the right child at that level;
\* for the tree over [a, b], index 0 gives siblings [leafDigest(b)] and left
\* [false], index 1 gives siblings [leafDigest(a)] and left [true].
C24_ProofEncoding ==
    InclusionProofHeld =>
        LET d == SubSeq(data, 1, proof.size) IN
        /\ proof.Siblings = AuditPath(d, proof.arg).Siblings
        /\ proof.Left = AuditPath(d, proof.arg).Left
        /\ (proof.size = 2 /\ proof.arg = 0) =>
              /\ proof.Siblings = <<DefaultHashFunc(<<0>> \o d[2])>>
              /\ proof.Left = <<FALSE>>
        /\ (proof.size = 2 /\ proof.arg = 1) =>
              /\ proof.Siblings = <<DefaultHashFunc(<<0>> \o d[1])>>
              /\ proof.Left = <<TRUE>>

\* The proof for index 1 of a tree over two different leaves is in hand.
C24_Witness ==
    /\ InclusionProofHeld
    /\ proof.size = 2
    /\ proof.arg = 1
    /\ data[1] # data[2]
    /\ proof.Left = <<TRUE>>

\* The nodes reachable from node by Left and Right.
RECURSIVE Reachable(_, _)
Reachable(heap, node) ==
    IF node = Nil THEN {}
    ELSE {node} \cup Reachable(heap, heap[node].Left)
                \cup Reachable(heap, heap[node].Right)

\* The node at which following Parent from node ends.
RECURSIVE TopOf(_, _)
TopOf(heap, node) ==
    IF heap[node].Parent = Nil THEN node ELSE TopOf(heap, heap[node].Parent)

\* C25: after NewTree and after every Append, every node reachable from the
\* root has two children or none; the digest of every internal node is the
\* node digest of its children's digests; every leaf of Leaves is reachable
\* from the root; the Parent of every node but the root is the one node of the
\* tree that has it as a child, the root has no Parent, and following Parent
\* from any leaf ends at the root.
C25_TreeStructure ==
    LET heap  == tree.heap
        nodes == Reachable(heap, tree.root)
    IN /\ \A x \in nodes :
             /\ heap[x].Left = Nil <=> heap[x].Right = Nil
             /\ heap[x].Left # Nil =>
                   heap[x].Hash = DefaultHashFunc(<<1>> \o heap[heap[x].Left].Hash
                                                        \o heap[heap[x].Right].Hash)
             /\ x # tree.root =>
                   { p \in nodes : heap[p].Left = x \/ heap[p].Right = x }
                       = { heap[x].Parent }
       /\ heap[tree.root].Parent = Nil
       /\ \A i \in 1..Len(tree.Leaves) :
             /\ tree.Leaves[i] \in nodes
             /\ heap[tree.Leaves[i]].Left = Nil
             /\ TopOf(heap, tree.Leaves[i]) = tree.root

\* Four leaves, three of them appended one by one: the heap holds the
\* internal nodes of the earlier builds as well.
C25_Witness ==
    /\ Len(tree.Leaves) = 4
    /\ Len(history) = 4
    /\ Len(tree.heap) > 7

\* The 0-based positions, in increasing order, of the leaves whose digest
\* is d.
PositionsOf(d) ==
    LET all == [i \in 1..Len(tree.Leaves) |-> i - 1]
        Has(i) == tree.heap[tree.Leaves[i + 1]].Hash = d
    IN SelectSeq(all, Has)

\* C26: after NewTree and after every Append, the index entry of every
\* digest is the list, in increasing order, of all positions whose leaf digest
\* it is: every position is in the index once and repeated leaves keep all
\* their positions.
C26_IndexComplete ==
    /\ \A x \in LeafData :
          IndexLookup(tree.indexMap, HexEncode(HashLeafData(x)))
              = PositionsOf(HashLeafData(x))
    /\ \A key \in DOMAIN tree.indexMap :
          \E x \in LeafData : key = HexEncode(HashLeafData(x))

\* The digests of the leaves of t, in order.
LeafDigests(t) == [i \in 1..Len(t.Leaves) |-> t.heap[t.Leaves[i]].Hash]

\* C27: the tree is append-only.  Every Append(x), a zero-length x
\* included, adds exactly one leaf, puts the leaf digest of x at the last
\* position and leaves the digests at the earlier positions as they were; over
\* every step the leaf digests of the state before are a prefix of those of
\* the state after, and the count does not decrease.
C27_AppendOnly ==
    [][/\ data' # data =>
             /\ Len(tree'.Leaves) = Len(tree.Leaves) + 1
             /\ LeafDigests(tree')
                   = Append(LeafDigests(tree), DefaultHashFunc(<<0>> \o Last(data')))
       /\ Len(tree'.Leaves) >= Len(tree.Leaves)
       /\ SubSeq(LeafDigests(tree'), 1, Len(tree.Leaves)) = LeafDigests(tree)
      ]_vars

\* A zero-length leaf has been appended as the fourth leaf.
C27_Witness ==
    /\ Appended
    /\ Len(tree.Leaves) = 4
    /\ Last(data) = <<>>
    /\ Last(LeafDigests(tree)) = DefaultHashFunc(<<0>>)

\* The 0-based leaf position reached in the RFC 6962 tree of n leaves by
\* going down from the root as left[j], ..., left[1] say (TRUE: to the right
\* child); -1 when the walk does not end exactly at a leaf.
RECURSIVE Descend(_, _, _, _)
Descend(left, j, start, n) ==
    IF j = 0 THEN (IF n = 1 THEN start ELSE -1)
    ELSE IF n = 1 THEN -1
    ELSE LET k == RefSplit(n)
         IN IF left[j] THEN Descend(left, j - 1, start + k, n - k)
                       ELSE Descend(left, j - 1, start, k)

\* C30: inclusion verification is sound.  If VerifyInclusionProof(x, proof,
\* R) returns true for a proof whose Siblings and Left are equally long, and
\* R is the root of the tree over the first n leaves of data, then the
\* directions in proof.Left lead from the root to a leaf position i and
\* x = data[i]; a byte string that is no leaf of that tree is not accepted.
C30_InclusionSound ==
    \A n \in 1..Len(data) :
        (/\ verdict.op = "VerifyInclusionProof"
         /\ verdict.result = "true"
         /\ Len(verdict.Siblings) = Len(verdict.Left)
         /\ verdict.root = BulkRoot(n))
            => LET i == Descend(verdict.Left, Len(verdict.Left), 0, n)
               IN /\ i # -1
                  /\ verdict.leaf = data[i + 1]

\* A flipped proof has been accepted (it leads to an equal leaf), on a tree
\* of at least three leaves.
C30_Witness ==
    /\ verdict.op = "VerifyInclusionProof"
    /\ verdict.tamper.kind = "flip"
    /\ verdict.result = "true"
    /\ verdict.size >= 3

\* A proof is in hand.
ProofHeld == proof.kind \in {"incl", "cons"} /\ ~proof.err

\* C22: a proof outlives later appends.  Whatever is appended after a proof
\* was generated, the digests of the proof and the root captured with it are
\* the bytes that were returned, and the proof still verifies against that
\* root.
C22_ProofOutlivesAppend ==
    /\ ProofHeld =>
          /\ HeldDigests(proof)
                = (IF proof.kind = "incl" THEN proof.Siblings ELSE proof.Hashes)
          /\ HeldRoot(proof) = proof.root
    /\ (ProofHeld /\ verdict.op # "none") => verdict.result = "true"

\* A proof generated at two leaves has been verified after two more
\* appends.
C22_Witness ==
    /\ ProofHeld
    /\ proof.size = 2
    /\ proof.arg = 1
    /\ Len(tree.Leaves) = 4
    /\ verdict.op # "none"
    /\ verdict.result = "true"

\* C29: values handed to callers share no storage with the tree.  Whatever
\* a caller overwrites in a returned proof or root, RootHash and the proofs
\* generated afterwards are those of the tree over the leaves given so far.
C29_NoSharedStorage ==
    LET fresh == build(data) IN
    /\ RootHash(tree) = RootHash(fresh)
    /\ \A i \in 0..(Len(data) - 1) :
          GenerateInclusionProof(tree, i) = GenerateInclusionProof(fresh, i)
    /\ \A m \in 1..Len(data) :
          GenerateConsistencyProof(tree, m) = GenerateConsistencyProof(fresh, m)


\* The goroutines whose last read call has returned.
Returned(op) ==
    {g \in DOMAIN procs : procs[g].pc = "idle" /\ procs[g].op = op}

\* The number of leaves NewTree was given: the Appends that have stored
\* their leaf are the committed ones and, at most, the one in progress.
StartSize ==
    Len(data) - (Len(history) - 1)
      - Cardinality({g \in DOMAIN procs :
                       procs[g].pc \in {"index", "build", "root", "unlock"}})

\* The tree after a whole number of the Appends, k leaves in all.
TreeAfter(k) == build(SubSeq(data, 1, k))

\* C21: operations on one Tree are linearised.  Whatever Append is doing
\* meanwhile, a RootHash, a GenerateInclusionProof and a
\* GenerateConsistencyProof that has returned has returned what it returns
\* on the tree after some whole number of the Appends.
C21_Linearised ==
    /\ \A g \in Returned("RootHash") :
          \E k \in StartSize..Len(data) :
              procs[g].result.root = RootHash(TreeAfter(k))
    /\ \A g \in Returned("GenerateInclusionProof") :
          \E k \in StartSize..Len(data) :
              LET p == GenerateInclusionProof(TreeAfter(k), procs[g].arg) IN
              /\ (procs[g].result.err # "") = p.err
              /\ procs[g].result.Siblings = p.Siblings
              /\ procs[g].result.Left = p.Left
    /\ \A g \in Returned("GenerateConsistencyProof") :
          \E k \in StartSize..Len(data) :
              LET p == GenerateConsistencyProof(TreeAfter(k), procs[g].arg) IN
              /\ (procs[g].result.err # "") = p.err
              /\ procs[g].result.Hashes = p.Hashes

\* Goroutine r1 has an inclusion proof of leaf 2 of one sibling, the proof
\* on three leaves, from a tree that began with one leaf and has had its
\* third Append finish.
C21_Witness ==
    /\ procs # <<>>
    /\ "r1" \in Returned("GenerateInclusionProof")
    /\ procs["r1"].arg = 2
    /\ procs["r1"].result.err = ""
    /\ Len(procs["r1"].result.Siblings) = 1
    /\ StartSize = 1
    /\ Len(history) = 4

\* Goroutine g is inside a call of op.
Calling(g, op) ==
    /\ procs # <<>>
    /\ procs[g].op = op
    /\ procs[g].pc # "idle"

\* C28: no deadlock between readers and writers on one Tree.  Every call of
\* GenerateInclusionProofByData and every concurrent Append eventually
\* returns.
C28_EveryCallReturns ==
    /\ Calling("r1", "GenerateInclusionProofByData") ~> ~Calling("r1", "GenerateInclusionProofByData")
    /\ Calling("w", "Append") ~> ~Calling("w", "Append")

\* GenerateInclusionProofByData holds the read lock and waits for it a
\* second time, behind an Append that waits for the readers to leave.
C28_Deadlocked ==
    /\ procs # <<>>
    /\ procs["r1"].pc = "rlockInner"
    /\ procs["r1"].held = 1
    /\ procs["w"].pc = "lock"
    /\ lock.waiting = 1
====
